---- MODULE Spec2Model ----
(***************************************************************************)
(* The in-memory VFS shell of practice_1 (vfs.py, shell_app.py).           *)
(*                                                                         *)
(* A node reference is modelled by the node's location: the sequence of    *)
(* dictionary keys leading to it from the root (<<>> is the root).  The    *)
(* tree is a function from locations to node records; the children of a    *)
(* directory are the locations one key longer than its own.                *)
(*                                                                         *)
(* A path string is modelled by what str.startswith('/') and               *)
(* str.split('/') make of it: the flag abs and the sequence segs of the    *)
(* '/'-separated pieces that follow the leading slash (if any).            *)
(***************************************************************************)
EXTENDS Integers, Sequences, FiniteSets, TLC

VARIABLES vfs_root, order, cwd, input_var, out, branch, copied, res,
          alive, startup_script, timers, log, vfs_path

vars == <<vfs_root, order, cwd, input_var, out, branch, copied, res,
          alive, startup_script, timers, log, vfs_path>>

\* the window, the script file, the callbacks scheduled with after(), the
\* record of the script lines dispatched so far and the description the
\* window was started with
session == <<alive, startup_script, timers, log, vfs_path>>

(* ------------------------------ bounds -------------------------------- *)
MaxRmLen == 2
MaxCdLen == 1
MaxSrcLen == 1
MaxDstLen == 1
MaxDeepLen == 3
MaxResolveLen == 3
MaxCwdLen == 2
MaxCopyLen == 1

(* ------------------------------ tree model ---------------------------- *)
NoTree == [l \in {} |-> 0]

VFSDirectory(name) == [kind |-> "dir", name |-> name, data |-> <<>>]

VFSFile(name, data) == [kind |-> "file", name |-> name, data |-> data]

IsPrefix(p, q) == Len(p) <= Len(q) /\ SubSeq(q, 1, Len(p)) = p

children(t, loc) == {q \in DOMAIN t : Len(q) = Len(loc) + 1 /\ IsPrefix(loc, q)}

get_child(t, loc, name) ==
  IF Append(loc, name) \in DOMAIN t
    THEN [found |-> TRUE, loc |-> Append(loc, name)]
    ELSE [found |-> FALSE, loc |-> <<>>]

\* add_child as dict.setdefault: an existing child of that name is kept
add_child_keep_existing(t, loc, node) ==
  LET at == Append(loc, node.name)
  IN IF at \in DOMAIN t THEN t
     ELSE [q \in DOMAIN t \cup {at} |-> IF q = at THEN node ELSE t[q]]

\* add_child on a mapping keyed by name alone: every file of that name,
\* wherever it hangs, is replaced as well
add_child_by_name(t, loc, node) ==
  LET at == Append(loc, node.name)
      keep == {q \in DOMAIN t : ~IsPrefix(at, q)}
  IN [q \in keep \cup {at} |->
        IF q = at THEN node
        ELSE IF t[q].kind = "file" /\ t[q].name = node.name THEN node
        ELSE t[q]]

add_child(t, loc, node) ==
  LET at == Append(loc, node.name)
      keep == {q \in DOMAIN t : ~IsPrefix(at, q)}
  IN [q \in keep \cup {at} |-> IF q = at THEN node ELSE t[q]]

\* remove_child that empties the dictionary the name is found in
remove_child_clears(t, loc, name) ==
  LET at == Append(loc, name)
  IN IF at \in DOMAIN t
       THEN [ok |-> TRUE,
             tree |-> [q \in {x \in DOMAIN t : ~(IsPrefix(loc, x) /\ x # loc)} |-> t[q]]]
       ELSE [ok |-> FALSE, tree |-> t]

\* remove_child that takes the empty name to mean the directory itself
remove_child_or_self(t, loc, name) ==
  LET at == IF name = "" THEN loc ELSE Append(loc, name)
  IN IF at \in DOMAIN t
       THEN [ok |-> TRUE, tree |-> [q \in {x \in DOMAIN t : ~IsPrefix(at, x)} |-> t[q]]]
       ELSE [ok |-> FALSE, tree |-> t]

remove_child(t, loc, name) ==
  LET at == Append(loc, name)
  IN IF at \in DOMAIN t
       THEN [ok |-> TRUE, tree |-> [q \in {x \in DOMAIN t : ~IsPrefix(at, x)} |-> t[q]]]
       ELSE [ok |-> FALSE, tree |-> t]

(* ------------------------------ the order of a dict ------------------- *)
\* order[d] is the sequence of keys of the children dict of the Directory at
\* d, in the order the dict holds them

\* the names the model's trees use, in the order of str comparison
NameOrder == <<"..", "a", "b", "bin.dat", "f", "root.txt", "sub", "text.txt">>

\* the dicts after the tree became t: a deleted key leaves its dict, a key
\* assigned again keeps its place, a new key goes last (a command adds one
\* key at most)
dict_order(ord, t) ==
  [d \in {l \in DOMAIN t : t[l].kind = "dir"} |->
     LET was == IF d \in DOMAIN ord THEN ord[d] ELSE <<>>
         kept == SelectSeq(was, LAMBDA n : Append(d, n) \in DOMAIN t)
         new == {q[Len(q)] : q \in children(t, d)} \ {kept[i] : i \in DOMAIN kept}
     IN IF new = {} THEN kept ELSE Append(kept, CHOOSE n \in new : TRUE)]

\* the dicts of a tree whose description lists the elements of every
\* directory by name
load_order(t) ==
  [d \in {l \in DOMAIN t : t[l].kind = "dir"} |->
     SelectSeq(NameOrder, LAMBDA n : Append(d, n) \in DOMAIN t)]

(* ------------------------------ paths --------------------------------- *)
split_path(path) == SelectSeq(path.segs, LAMBDA p : p \notin {"", "."})

\* normalize with '..' skipped instead of popping
RECURSIVE normalize_no_pop(_, _)
normalize_no_pop(comps, stack) ==
  IF comps = <<>> THEN stack
  ELSE LET c == Head(comps)
       IN normalize_no_pop(Tail(comps),
                           IF c = ".." \/ c = "." THEN stack ELSE Append(stack, c))

\* normalize without the guard on an empty stack: a '..' met at the root is
\* kept as a segment to look up
RECURSIVE normalize_above_root(_, _)
normalize_above_root(comps, stack) ==
  IF comps = <<>> THEN stack
  ELSE LET c == Head(comps)
       IN normalize_above_root(Tail(comps),
                    IF c = ".."
                      THEN (IF stack # <<>> THEN SubSeq(stack, 1, Len(stack) - 1)
                            ELSE Append(stack, c))
                      ELSE IF c = "." THEN stack ELSE Append(stack, c))

RECURSIVE normalize(_, _)
normalize(comps, stack) ==
  IF comps = <<>> THEN stack
  ELSE LET c == Head(comps)
       IN normalize(Tail(comps),
                    IF c = ".."
                      THEN (IF stack # <<>> THEN SubSeq(stack, 1, Len(stack) - 1) ELSE stack)
                      ELSE IF c = "." THEN stack ELSE Append(stack, c))

NotFound == [found |-> FALSE, loc |-> <<>>]

RECURSIVE walk(_, _, _)
walk(t, loc, stack) ==
  IF stack = <<>> THEN [found |-> TRUE, loc |-> loc]
  ELSE IF t[loc].kind # "dir" THEN NotFound
  ELSE LET nxt == get_child(t, loc, Head(stack))
       IN IF ~nxt.found THEN NotFound ELSE walk(t, nxt.loc, Tail(stack))

resolve_path(root, cur, path) ==
  LET comps == IF path.abs THEN split_path(path) ELSE cur \o split_path(path)
  IN walk(root, <<>>, normalize(comps, <<>>))

NoParent == [found |-> FALSE, loc |-> <<>>, name |-> ""]

\* resolve_parent that reads every path from the root, cwd or not
resolve_parent_from_root(root, cur, path) ==
  IF path.abs /\ path.segs = <<>> THEN NoParent
  ELSE LET comps == split_path(path)
       IN IF comps = <<>> THEN [found |-> TRUE, loc |-> <<>>, name |-> ""]
          ELSE LET parent_comps == SubSeq(comps, 1, Len(comps) - 1)
                   name == comps[Len(comps)]
                   node == walk(root, <<>>, normalize(parent_comps, <<>>))
               IN IF ~node.found THEN NoParent
                  ELSE IF root[node.loc].kind # "dir" THEN NoParent
                  ELSE [found |-> TRUE, loc |-> node.loc, name |-> name]

\* resolve_parent that forgets to cut the last segment off before walking
resolve_parent_whole_path(root, cur, path) ==
  IF path.abs /\ path.segs = <<>> THEN NoParent
  ELSE LET comps == IF path.abs THEN split_path(path) ELSE cur \o split_path(path)
       IN IF comps = <<>> THEN [found |-> TRUE, loc |-> <<>>, name |-> ""]
          ELSE LET name == comps[Len(comps)]
                   node == walk(root, <<>>, normalize(comps, <<>>))
               IN IF ~node.found THEN NoParent
                  ELSE IF root[node.loc].kind # "dir" THEN NoParent
                  ELSE [found |-> TRUE, loc |-> node.loc, name |-> name]

resolve_parent(root, cur, path) ==
  IF path.abs /\ path.segs = <<>> THEN NoParent
  ELSE LET comps == IF path.abs THEN split_path(path) ELSE cur \o split_path(path)
       IN IF comps = <<>> THEN [found |-> TRUE, loc |-> <<>>, name |-> ""]
          ELSE LET parent_comps == SubSeq(comps, 1, Len(comps) - 1)
                   name == comps[Len(comps)]
                   node == walk(root, <<>>, normalize(parent_comps, <<>>))
               IN IF ~node.found THEN NoParent
                  ELSE IF root[node.loc].kind # "dir" THEN NoParent
                  ELSE [found |-> TRUE, loc |-> node.loc, name |-> name]

(* ------------------------------ VFS helpers --------------------------- *)
\* what a handler leaves behind: the tree, the current location, the lines it
\* wrote to the output, the branch it returned from
H(root, cur, msgs, br) == [root |-> root, cwd |-> cur, out |-> msgs, branch |-> br]

\* vfs_resolve that returns None without a word when no tree is loaded
vfs_resolve_silent(root, cur, path) ==
  IF root = NoTree
    THEN [found |-> FALSE, loc |-> <<>>, out |-> <<>>]
    ELSE LET r == resolve_path(root, cur, path)
         IN [found |-> r.found, loc |-> r.loc, out |-> <<>>]

vfs_resolve(root, cur, path) ==
  IF root = NoTree
    THEN [found |-> FALSE, loc |-> <<>>, out |-> <<"vfs_not_loaded">>]
    ELSE LET r == resolve_path(root, cur, path)
         IN [found |-> r.found, loc |-> r.loc, out |-> <<>>]

\* vfs_change_dir that stores the new location before it looks at the node
vfs_change_dir_eager(root, cur, path) ==
  IF root = NoTree THEN [ok |-> FALSE, cwd |-> cur, out |-> <<"vfs_not_loaded">>]
  ELSE IF path.abs /\ path.segs = <<>> THEN [ok |-> TRUE, cwd |-> <<>>, out |-> <<>>]
  ELSE LET node == vfs_resolve(root, cur, path)
           new == IF path.abs THEN split_path(path)
                  ELSE normalize(cur \o split_path(path), <<>>)
       IN IF ~node.found \/ root[node.loc].kind # "dir"
            THEN [ok |-> FALSE, cwd |-> new, out |-> node.out]
            ELSE [ok |-> TRUE, cwd |-> new, out |-> node.out]

vfs_change_dir(root, cur, path) ==
  IF root = NoTree THEN [ok |-> FALSE, cwd |-> cur, out |-> <<"vfs_not_loaded">>]
  ELSE IF path.abs /\ path.segs = <<>> THEN [ok |-> TRUE, cwd |-> <<>>, out |-> <<>>]
  ELSE LET node == vfs_resolve(root, cur, path)
       IN IF ~node.found \/ root[node.loc].kind # "dir"
            THEN [ok |-> FALSE, cwd |-> cur, out |-> node.out]
            ELSE IF path.abs
              THEN [ok |-> TRUE, cwd |-> split_path(path), out |-> node.out]
              ELSE [ok |-> TRUE, cwd |-> normalize(cur \o split_path(path), <<>>),
                    out |-> node.out]

RootPath == [abs |-> TRUE, segs |-> <<>>]

(* ------------------------------ handlers ------------------------------ *)
cmd_cd(root, cur, args) ==
  IF args = <<>>
    THEN LET c == vfs_change_dir(root, cur, RootPath)
         IN IF c.ok THEN H(root, c.cwd, c.out \o <<"cd_root">>, "cd:root")
                    ELSE H(root, c.cwd, c.out \o <<"cd_root_failed">>, "cd:root_failed")
    ELSE LET c == vfs_change_dir(root, cur, args[1])
         IN IF c.ok THEN H(root, c.cwd, c.out \o <<"cd_ok">>, "cd:ok")
                    ELSE H(root, c.cwd, c.out \o <<"cd_failed">>, "cd:failed")

\* cmd_rmdir without the emptiness check
cmd_rmdir_unchecked(root, cur, args) ==
  IF args = <<>> THEN H(root, cur, <<"rmdir_need_path">>, "rmdir:args")
  ELSE IF root = NoTree THEN H(root, cur, <<"vfs_not_loaded">>, "rmdir:not_loaded")
  ELSE LET path == args[1]
           node == vfs_resolve(root, cur, path)
       IN IF ~node.found THEN H(root, cur, node.out \o <<"rmdir_not_found">>, "rmdir:not_found")
          ELSE IF root[node.loc].kind # "dir"
            THEN H(root, cur, <<"rmdir_not_dir">>, "rmdir:not_dir")
          ELSE LET parent_info == resolve_parent(root, cur, path)
               IN IF ~parent_info.found
                    THEN H(root, cur, <<"rmdir_no_parent">>, "rmdir:no_parent")
                    ELSE LET r == remove_child(root, parent_info.loc, parent_info.name)
                         IN IF ~r.ok
                              THEN H(r.tree, cur, <<"rmdir_remove_failed">>, "rmdir:remove_failed")
                              ELSE H(r.tree, cur, <<"rmdir_removed">>, "rmdir:removed")

cmd_rmdir(root, cur, args) ==
  IF args = <<>> THEN H(root, cur, <<"rmdir_need_path">>, "rmdir:args")
  ELSE IF root = NoTree THEN H(root, cur, <<"vfs_not_loaded">>, "rmdir:not_loaded")
  ELSE LET path == args[1]
           node == vfs_resolve(root, cur, path)
       IN IF ~node.found THEN H(root, cur, node.out \o <<"rmdir_not_found">>, "rmdir:not_found")
          ELSE IF root[node.loc].kind # "dir"
            THEN H(root, cur, <<"rmdir_not_dir">>, "rmdir:not_dir")
          ELSE IF children(root, node.loc) # {}
            THEN H(root, cur, <<"rmdir_not_empty">>, "rmdir:not_empty")
          ELSE LET parent_info == resolve_parent(root, cur, path)
               IN IF ~parent_info.found
                    THEN H(root, cur, <<"rmdir_no_parent">>, "rmdir:no_parent")
                    ELSE LET r == remove_child(root, parent_info.loc, parent_info.name)
                         IN IF ~r.ok
                              THEN H(r.tree, cur, <<"rmdir_remove_failed">>, "rmdir:remove_failed")
                              ELSE H(r.tree, cur, <<"rmdir_removed">>, "rmdir:removed")

\* cp_store that puts the source node itself under the destination name
\* (dest_parent.children[dest_name] = src_node) instead of a new file
cp_store_links_source(root, cur, src_node, dest_parent, dest_name, br) ==
  IF root[dest_parent].kind # "dir"
    THEN H(root, cur, <<"cp_dest_unavailable">>, "cp:dest_unavailable")
    ELSE LET existing == get_child(root, dest_parent, dest_name)
             at == Append(dest_parent, dest_name)
         IN IF existing.found /\ root[existing.loc].kind = "dir"
              THEN H(root, cur, <<"cp_dir_in_the_way">>, "cp:dir_in_the_way")
              ELSE H([q \in DOMAIN root \cup {at} |-> IF q = at THEN src_node ELSE root[q]],
                     cur, <<"cp_copied">>, br)

\* cp_store that adds the new file before it looks at what is there
cp_store_early(root, cur, src_node, dest_parent, dest_name, br) ==
  IF root[dest_parent].kind # "dir"
    THEN H(root, cur, <<"cp_dest_unavailable">>, "cp:dest_unavailable")
    ELSE LET new_file == VFSFile(dest_name, src_node.data)
             existing == get_child(root, dest_parent, dest_name)
             stored == add_child(root, dest_parent, new_file)
         IN IF existing.found /\ root[existing.loc].kind = "dir"
              THEN H(stored, cur, <<"cp_dir_in_the_way">>, "cp:dir_in_the_way")
              ELSE H(stored, cur, <<"cp_copied">>, br)

\* cp_store that creates the destination file and copies no bytes into it
cp_store_empty_copy(root, cur, src_node, dest_parent, dest_name, br) ==
  IF root[dest_parent].kind # "dir"
    THEN H(root, cur, <<"cp_dest_unavailable">>, "cp:dest_unavailable")
    ELSE LET new_file == VFSFile(dest_name, <<>>)
             existing == get_child(root, dest_parent, dest_name)
         IN IF existing.found /\ root[existing.loc].kind = "dir"
              THEN H(root, cur, <<"cp_dir_in_the_way">>, "cp:dir_in_the_way")
              ELSE H(add_child(root, dest_parent, new_file), cur, <<"cp_copied">>, br)

\* cp_store without the check for a directory under the destination name
cp_store_unguarded(root, cur, src_node, dest_parent, dest_name, br) ==
  IF root[dest_parent].kind # "dir"
    THEN H(root, cur, <<"cp_dest_unavailable">>, "cp:dest_unavailable")
    ELSE H(add_child(root, dest_parent, VFSFile(dest_name, src_node.data)), cur,
           <<"cp_copied">>, br)

cp_store(root, cur, src_node, dest_parent, dest_name, br) ==
  IF root[dest_parent].kind # "dir"
    THEN H(root, cur, <<"cp_dest_unavailable">>, "cp:dest_unavailable")
    ELSE LET new_file == VFSFile(dest_name, src_node.data)
             existing == get_child(root, dest_parent, dest_name)
         IN IF existing.found /\ root[existing.loc].kind = "dir"
              THEN H(root, cur, <<"cp_dir_in_the_way">>, "cp:dir_in_the_way")
              ELSE H(add_child(root, dest_parent, new_file), cur, <<"cp_copied">>, br)

cmd_cp(root, cur, args) ==
  IF Len(args) < 2 THEN H(root, cur, <<"cp_need_args">>, "cp:args")
  ELSE IF root = NoTree THEN H(root, cur, <<"vfs_not_loaded">>, "cp:not_loaded")
  ELSE LET src == args[1]
           dst == args[2]
           src_at == vfs_resolve(root, cur, src)
       IN IF ~src_at.found THEN H(root, cur, <<"cp_src_not_found">>, "cp:src_not_found")
          ELSE IF root[src_at.loc].kind = "dir"
            THEN H(root, cur, <<"cp_src_is_dir">>, "cp:src_is_dir")
          ELSE LET src_node == root[src_at.loc]
                   dst_at == vfs_resolve(root, cur, dst)
                   parent_info == resolve_parent(root, cur, dst)
               IN IF dst_at.found /\ root[dst_at.loc].kind = "dir"
                    THEN cp_store(root, cur, src_node, dst_at.loc, src_node.name, "cp:into_dir")
                  ELSE IF dst_at.found /\ root[dst_at.loc].kind = "file"
                    THEN IF ~parent_info.found
                           THEN H(root, cur, <<"cp_no_parent_of_file">>, "cp:no_parent_of_file")
                           ELSE cp_store(root, cur, src_node, parent_info.loc,
                                         parent_info.name, "cp:over_file")
                  ELSE IF ~parent_info.found
                         THEN H(root, cur, <<"cp_no_parent">>, "cp:no_parent")
                         ELSE cp_store(root, cur, src_node, parent_info.loc,
                                       parent_info.name, "cp:new_name")

(* ------------------------------ ls ------------------------------------ *)
\* a < b on two names
less(a, b) ==
  (CHOOSE i \in DOMAIN NameOrder : NameOrder[i] = a)
    < (CHOOSE i \in DOMAIN NameOrder : NameOrder[i] = b)

\* sorted() that hands the items back as the dict yields them
sorted_as_inserted(items) == items

\* sorted(items): the keys are distinct, so the items are ordered by key
RECURSIVE sorted(_)
sorted(items) ==
  IF items = <<>> THEN <<>>
  ELSE LET rest == sorted(Tail(items))
           before == SelectSeq(rest, LAMBDA n : less(n, Head(items)))
           behind == SelectSeq(rest, LAMBDA n : ~less(n, Head(items)))
       IN before \o <<Head(items)>> \o behind

RECURSIVE join(_, _)
join(sep, strs) ==
  IF strs = <<>> THEN ""
  ELSE IF Len(strs) = 1 THEN strs[1]
  ELSE strs[1] \o sep \o join(sep, Tail(strs))

DotPath == [abs |-> FALSE, segs |-> <<".">>]

\* cur_path that is '/' wherever the session is
cur_path_root(cur) == [abs |-> TRUE, segs |-> <<>>]

\* '/' + '/'.join(self.cwd), or '/' for an empty cwd
cur_path(cur) == [abs |-> TRUE, segs |-> cur]

cmd_ls(root, cur, args) ==
  LET target == IF args # <<>> THEN args[1] ELSE DotPath
      node == IF target = DotPath
                THEN [found |-> resolve_path(root, cur, cur_path(cur)).found,
                      loc |-> resolve_path(root, cur, cur_path(cur)).loc,
                      out |-> <<>>]
                ELSE vfs_resolve(root, cur, target)
  IN IF target = DotPath /\ root = NoTree
       THEN H(root, cur, <<"vfs_not_loaded">>, "ls:not_loaded")
     ELSE IF ~node.found THEN H(root, cur, node.out \o <<"ls_not_found">>, "ls:not_found")
     ELSE IF root[node.loc].kind = "dir"
       THEN LET items == order[node.loc]
                names == [i \in 1..Len(sorted(items)) |->
                            sorted(items)[i] \o
                              (IF root[Append(node.loc, sorted(items)[i])].kind = "dir"
                                 THEN "/" ELSE "")]
            IN IF names # <<>>
                 THEN H(root, cur, <<join("  ", names)>>,
                        IF target = DotPath THEN "ls:cwd" ELSE "ls:dir")
               ELSE H(root, cur, <<"ls_empty_dir">>, "ls:empty_dir")
     ELSE H(root, cur, <<root[node.loc].name>>, "ls:file")

(* ------------------------------ cat ----------------------------------- *)
continuation(b) == b \in 128..191

\* bytes.decode('utf-8'): the code points, or a failure
RECURSIVE utf8_decode(_)
utf8_decode(bs) ==
  IF bs = <<>> THEN [ok |-> TRUE, text |-> <<>>]
  ELSE LET b == bs[1]
           n == Len(bs)
           two == /\ n >= 2
                  /\ b \in 194..223
                  /\ continuation(bs[2])
           three == /\ n >= 3
                    /\ continuation(bs[3])
                    /\ \/ b = 224 /\ bs[2] \in 160..191
                       \/ b \in (225..236) \cup (238..239) /\ continuation(bs[2])
                       \/ b = 237 /\ bs[2] \in 128..159
           four == /\ n >= 4
                   /\ continuation(bs[3])
                   /\ continuation(bs[4])
                   /\ \/ b = 240 /\ bs[2] \in 144..191
                      \/ b \in 241..243 /\ continuation(bs[2])
                      \/ b = 244 /\ bs[2] \in 128..143
           k == IF b < 128 THEN 1 ELSE IF two THEN 2 ELSE IF three THEN 3
                ELSE IF four THEN 4 ELSE 0
           ch == IF k = 1 THEN b
                 ELSE IF k = 2 THEN (b - 192) * 64 + (bs[2] - 128)
                 ELSE IF k = 3 THEN (b - 224) * 4096 + (bs[2] - 128) * 64 + (bs[3] - 128)
                 ELSE (b - 240) * 262144 + (bs[2] - 128) * 4096 + (bs[3] - 128) * 64
                        + (bs[4] - 128)
       IN IF k = 0 THEN [ok |-> FALSE, text |-> <<>>]
          ELSE LET rest == utf8_decode(SubSeq(bs, k + 1, n))
               IN IF rest.ok THEN [ok |-> TRUE, text |-> <<ch>> \o rest.text]
                  ELSE [ok |-> FALSE, text |-> <<>>]

\* str.isspace of one character
isspace(ch) ==
  ch \in (9..13) \cup (28..32) \cup {133, 160, 5760} \cup (8192..8202)
           \cup {8232, 8233, 8239, 8287, 12288}

\* str.isprintable of one character: exact below U+0100; above it the
\* separators are the characters taken as not printable
isprintable(ch) ==
  IF ch < 256 THEN ch \in (32..126) \cup (161..172) \cup (174..255)
  ELSE ~isspace(ch)

linebreak(ch) == ch \in (10..13) \cup (28..30) \cup {133, 8232, 8233}

\* str.splitlines
RECURSIVE splitlines(_, _)
splitlines(text, line) ==
  IF text = <<>> THEN (IF line = <<>> THEN <<>> ELSE <<line>>)
  ELSE IF linebreak(text[1])
    THEN <<line>> \o splitlines(IF text[1] = 13 /\ Len(text) >= 2 /\ text[2] = 10
                                  THEN SubSeq(text, 3, Len(text)) ELSE Tail(text),
                                <<>>)
    ELSE splitlines(Tail(text), Append(line, text[1]))

(* ------------------------------ base64 ------------------------------- *)
\* the characters of the base64 alphabet, and '=' behind them
b64alphabet ==
  <<"A", "B", "C", "D", "E", "F", "G", "H", "I", "J", "K", "L", "M", "N", "O", "P",
    "Q", "R", "S", "T", "U", "V", "W", "X", "Y", "Z", "a", "b", "c", "d", "e", "f",
    "g", "h", "i", "j", "k", "l", "m", "n", "o", "p", "q", "r", "s", "t", "u", "v",
    "w", "x", "y", "z", "0", "1", "2", "3", "4", "5", "6", "7", "8", "9", "+", "/",
    "=">>

\* the place of '=' among the digits
b64pad == 64

\* base64.b64encode: the digits of the bytes, three bytes to four digits,
\* the last group filled up with '='
RECURSIVE b64encode(_)
b64encode(bs) ==
  IF bs = <<>> THEN <<>>
  ELSE LET n == Len(bs)
           b1 == bs[1]
           b2 == IF n >= 2 THEN bs[2] ELSE 0
           b3 == IF n >= 3 THEN bs[3] ELSE 0
           s1 == b1 \div 4
           s2 == (b1 % 4) * 16 + b2 \div 16
           s3 == (b2 % 16) * 4 + b3 \div 64
           s4 == b3 % 64
       IN IF n = 1 THEN <<s1, s2, b64pad, b64pad>>
          ELSE IF n = 2 THEN <<s1, s2, s3, b64pad>>
          ELSE <<s1, s2, s3, s4>> \o b64encode(SubSeq(bs, 4, n))

\* the digits as a str
b64text(digits) == join("", [i \in 1..Len(digits) |-> b64alphabet[digits[i] + 1]])

\* the digits as the code points of their characters
b64points(digits) ==
  [i \in 1..Len(digits) |->
     LET s == digits[i]
     IN IF s < 26 THEN 65 + s
        ELSE IF s < 52 THEN 97 + (s - 26)
        ELSE IF s < 62 THEN 48 + (s - 52)
        ELSE IF s = 62 THEN 43
        ELSE IF s = 63 THEN 47
        ELSE 61]

\* the characters U+0020 .. U+005F
ascii ==
  <<" ", "!", "\"", "#", "$", "%", "&", "'", "(", ")", "*", "+", ",", "-", ".", "/",
    "0", "1", "2", "3", "4", "5", "6", "7", "8", "9", ":", ";", "<", "=", ">", "?",
    "@", "A", "B", "C", "D", "E", "F", "G", "H", "I", "J", "K", "L", "M", "N", "O",
    "P", "Q", "R", "S", "T", "U", "V", "W", "X", "Y", "Z", "[", "\\", "]", "^", "_">>

\* the characters U+0061 .. U+007E
ascii_lower ==
  <<"a", "b", "c", "d", "e", "f", "g", "h", "i", "j", "k", "l", "m", "n", "o",
    "p", "q", "r", "s", "t", "u", "v", "w", "x", "y", "z", "{", "|", "}", "~">>

\* one character of a line as the widget receives it; the grave accent and
\* the characters outside U+0020 .. U+007E are written here by their code
\* point between braces
chr(ch) ==
  IF ch \in 32..95 THEN ascii[ch - 31]
  ELSE IF ch \in 97..126 THEN ascii_lower[ch - 96]
  ELSE "{" \o ToString(ch) \o "}"

\* a line of text as a str
str(text) == join("", [i \in 1..Len(text) |-> chr(text[i])])

\* the line cat writes for bytes it does not show as text
binary_line(data) == "(binary data, base64): " \o b64text(b64encode(data))

\* the test of the ratio with > in the place of >=
ratio_above(printable_count, length) == 10 * printable_count > 6 * length

\* printable_count / max(1, len(text)) >= 0.6
ratio_at_least(printable_count, length) == 10 * printable_count >= 6 * length

cmd_cat(root, cur, args) ==
  IF args = <<>> THEN H(root, cur, <<"cat_need_path">>, "cat:args")
  ELSE LET node == vfs_resolve(root, cur, args[1])
       IN IF ~node.found THEN H(root, cur, node.out \o <<"cat_not_found">>, "cat:not_found")
          ELSE IF root[node.loc].kind = "dir" THEN H(root, cur, <<"cat_is_dir">>, "cat:is_dir")
          ELSE LET data == root[node.loc].data
                   dec == utf8_decode(data)
                   text == dec.text
                   printable_count ==
                     Cardinality({i \in DOMAIN text :
                                    isprintable(text[i]) \/ text[i] \in {10, 13, 9}})
               IN IF data = <<>> THEN H(root, cur, <<"cat_empty_file">>, "cat:empty")
                  ELSE IF ~dec.ok THEN H(root, cur, <<binary_line(data)>>, "cat:not_utf8")
                  ELSE IF \A i \in DOMAIN text : isspace(text[i])
                    THEN H(root, cur, <<binary_line(data)>>, "cat:blank_text")
                  ELSE IF ratio_at_least(printable_count, Len(text))
                    THEN H(root, cur,
                           [i \in 1..Len(splitlines(text, <<>>)) |->
                              str(splitlines(text, <<>>)[i])],
                           "cat:text")
                    ELSE H(root, cur, <<binary_line(data)>>, "cat:unprintable")

(* ------------------------------ vfsinfo, uptime, whoami, exit --------- *)
\* what walk(node, depth) adds to files and dirs and makes of max_depth
RECURSIVE vfsinfo_walk(_, _, _)
RECURSIVE vfsinfo_children(_, _, _, _)
\* the walk with a file counted as one level below its directory
RECURSIVE vfsinfo_children_files_deepen(_, _, _, _)
vfsinfo_children_files_deepen(t, todo, depth, acc) ==
  IF todo = {} THEN acc
  ELSE LET child == CHOOSE q \in todo : TRUE
           sub == IF t[child].kind = "dir" THEN vfsinfo_walk(t, child, depth + 1)
                  ELSE [files |-> 1, dirs |-> 0, max_depth |-> depth + 1]
       IN vfsinfo_children_files_deepen(t, todo \ {child}, depth,
                                        [files |-> acc.files + sub.files,
                                         dirs |-> acc.dirs + sub.dirs,
                                         max_depth |-> IF sub.max_depth > acc.max_depth
                                                         THEN sub.max_depth
                                                         ELSE acc.max_depth])

vfsinfo_children(t, todo, depth, acc) ==
  IF todo = {} THEN acc
  ELSE LET child == CHOOSE q \in todo : TRUE
           sub == IF t[child].kind = "dir" THEN vfsinfo_walk(t, child, depth + 1)
                  ELSE [files |-> 1, dirs |-> 0, max_depth |-> 0]
       IN vfsinfo_children(t, todo \ {child}, depth,
                           [files |-> acc.files + sub.files,
                            dirs |-> acc.dirs + sub.dirs,
                            max_depth |-> IF sub.max_depth > acc.max_depth
                                            THEN sub.max_depth ELSE acc.max_depth])

vfsinfo_walk(t, loc, depth) ==
  vfsinfo_children(t, children(t, loc), depth,
                   [files |-> 0, dirs |-> 1, max_depth |-> depth])

cmd_vfsinfo(root, cur, args) ==
  IF root = NoTree THEN H(root, cur, <<"vfs_not_loaded">>, "vfsinfo:not_loaded")
  ELSE LET st == vfsinfo_walk(root, <<>>, 0)
       IN H(root, cur,
            <<"vfsinfo_loaded",
              "dirs: " \o ToString(st.dirs) \o ", files: " \o ToString(st.files)
                \o ", max depth: " \o ToString(st.max_depth)>>,
            "vfsinfo:ok")

\* the second line is written when /proc/uptime exists and can be read
cmd_uptime(root, cur, args) ==
  {H(root, cur, <<"uptime_emulator">>, "uptime:emulator"),
   H(root, cur, <<"uptime_emulator", "uptime_system">>, "uptime:system")}

cmd_whoami(root, cur, args) == H(root, cur, <<"whoami">>, "whoami")

cmd_exit(root, cur, args) == H(root, cur, <<"exit">>, "exit")

\* the verbs of the command table
commands == {"ls", "cd", "cat", "vfsinfo", "uptime", "whoami", "rmdir", "cp", "exit"}

\* what calling self.commands[cmd](args) can leave behind
handler(cmd, root, cur, args) ==
  CASE cmd = "ls" -> {cmd_ls(root, cur, args)}
    [] cmd = "cd" -> {cmd_cd(root, cur, args)}
    [] cmd = "cat" -> {cmd_cat(root, cur, args)}
    [] cmd = "vfsinfo" -> {cmd_vfsinfo(root, cur, args)}
    [] cmd = "uptime" -> cmd_uptime(root, cur, args)
    [] cmd = "whoami" -> {cmd_whoami(root, cur, args)}
    [] cmd = "rmdir" -> {cmd_rmdir(root, cur, args)}
    [] cmd = "cp" -> {cmd_cp(root, cur, args)}
    [] cmd = "exit" -> {cmd_exit(root, cur, args)}

(* ------------------------------ input lines --------------------------- *)
NameSegs == {"a", "f"}

PathSegs == NameSegs \cup {".", ".."}

SegSeqs(S, n) == UNION {[1..k -> S] : k \in 0..n}

\* every path string over the segments S with at most n segments; the empty
\* string and strings that would repeat another's (abs, segs) are left out
PathStrings(S, n) ==
  {[abs |-> TRUE, segs |-> s] : s \in SegSeqs(S, n) \ {<<"">>}}
    \cup {[abs |-> FALSE, segs |-> s] : s \in {x \in SegSeqs(S, n) : x # <<>> /\ x[1] # ""}}

Line(cmd, args) == [cmd |-> cmd, args |-> args]

NoLine == Line("", <<>>)

RmdirLines ==
  {Line("rmdir", <<>>)} \cup {Line("rmdir", <<p>>) : p \in PathStrings(PathSegs, MaxRmLen)}

CdLines ==
  {Line("cd", <<>>)} \cup {Line("cd", <<p>>) : p \in PathStrings(PathSegs, MaxCdLen)}

CpLines ==
  {Line("cp", <<>>)}
    \cup {Line("cp", <<s>>) : s \in PathStrings(NameSegs, MaxSrcLen)}
    \cup {Line("cp", <<s, d>>) : s \in PathStrings(NameSegs, MaxSrcLen),
                                 d \in PathStrings(PathSegs, MaxDstLen)}

Lines == RmdirLines \cup CdLines \cup CpLines \cup {Line("frobnicate", <<>>)}

(* ------------------------------ initial state ------------------------- *)
Tree(entries) == [l \in {e[1] : e \in entries} \cup {<<>>} |->
                    IF l = <<>> THEN VFSDirectory("/")
                    ELSE (CHOOSE e \in entries : e[1] = l)[2]]

\* the bytes of two text payloads, 'd1' and 'd2'
d1 == <<100, 49>>

d2 == <<100, 50>>

TreeEmpty == Tree({})

TreeEmptyDir == Tree({<<<<"a">>, VFSDirectory("a")>>, <<<<"f">>, VFSFile("f", d1)>>})

TreeTwoFiles ==
  Tree({<<<<"a">>, VFSDirectory("a")>>, <<<<"a", "f">>, VFSFile("f", d2)>>,
        <<<<"f">>, VFSFile("f", d1)>>})

TreeDirNamedF ==
  Tree({<<<<"a">>, VFSDirectory("a")>>, <<<<"a", "f">>, VFSDirectory("f")>>,
        <<<<"f">>, VFSFile("f", d1)>>})

TreeNested == Tree({<<<<"a">>, VFSDirectory("a")>>, <<<<"a", "a">>, VFSDirectory("a")>>})

\* trees load_vfs_from_xml returns for five small descriptions
LoadableTrees == {TreeEmpty, TreeEmptyDir, TreeTwoFiles, TreeDirNamedF, TreeNested}

NoCopy == [on |-> FALSE, src |-> <<>>, dst |-> <<>>, data |-> <<>>, srcSame |-> FALSE,
           dstSame |-> FALSE]

NoRes == [path |-> RootPath, found |-> FALSE, loc |-> <<>>, called |-> FALSE]

\* a window started without a startup script
NoScript == [given |-> FALSE, isfile |-> FALSE, lines |-> <<>>]

\* the description is followed where the loader is; elsewhere vfs_path holds
\* this value, whatever the tree was loaded from
NoPath == [state |-> "none"]

NoSession ==
  /\ alive = TRUE
  /\ startup_script = NoScript
  /\ timers = <<>>
  /\ log = <<>>
  /\ vfs_path = NoPath

Init ==
  /\ vfs_root \in LoadableTrees \cup {NoTree}
  /\ order = load_order(vfs_root)
  /\ cwd = <<>>
  /\ input_var = NoLine
  /\ out = <<>>
  /\ branch = "init"
  /\ copied = NoCopy
  /\ res = NoRes
  /\ NoSession

(* ------------------------------ actions ------------------------------- *)
TypeLine(l) ==
  /\ alive
  /\ input_var = NoLine
  /\ input_var' = l
  /\ out' = <<>>
  /\ branch' = "typed"
  /\ UNCHANGED <<vfs_root, order, cwd, copied, res, session>>

\* a command whose tree update is in place while its cwd update is not
Ran_tree_only(h) ==
  /\ vfs_root' = h.root
  /\ order' = IF h.root = vfs_root THEN order ELSE dict_order(order, h.root)
  /\ cwd' = cwd
  /\ out' = <<"echo">> \o h.out
  /\ branch' = h.branch

\* the echo of the line, then what the handler did; the dicts are touched
\* only where the tree is
Ran(h) ==
  /\ vfs_root' = h.root
  /\ order' = IF h.root = vfs_root THEN order ELSE dict_order(order, h.root)
  /\ cwd' = h.cwd
  /\ out' = <<"echo">> \o h.out
  /\ branch' = h.branch

\* on_enter runs while the window is there
Dispatched(h) ==
  /\ alive
  /\ Ran(h)
  /\ input_var' = NoLine

on_enter_cd ==
  /\ input_var.cmd = "cd"
  /\ Dispatched(cmd_cd(vfs_root, cwd, input_var.args))
  /\ UNCHANGED <<copied, res, session>>

on_enter_rmdir ==
  /\ input_var.cmd = "rmdir"
  /\ Dispatched(cmd_rmdir(vfs_root, cwd, input_var.args))
  /\ UNCHANGED <<copied, res, session>>

on_enter_cp ==
  /\ input_var.cmd = "cp"
  /\ Dispatched(cmd_cp(vfs_root, cwd, input_var.args))
  /\ UNCHANGED <<copied, res, session>>

\* the line written for an unknown verb names it and lists the verbs of the
\* command table
on_enter_unknown ==
  /\ input_var # NoLine
  /\ input_var.cmd \notin commands
  /\ Dispatched(H(vfs_root, cwd, <<"unknown_command">>, "unknown"))
  /\ UNCHANGED <<copied, res, session>>

Next ==
  \/ \E l \in Lines : TypeLine(l)
  \/ on_enter_cd
  \/ on_enter_rmdir
  \/ on_enter_cp
  \/ on_enter_unknown

Spec == Init /\ [][Next]_vars

\* the same session, typing rmdir and cp with paths of up to MaxDeepLen segments
DeepLines ==
  {Line("rmdir", <<p>>) : p \in PathStrings(PathSegs, MaxDeepLen)}
    \cup {Line("cp", <<s, d>>) : s \in PathStrings(NameSegs, MaxSrcLen),
                                 d \in PathStrings(PathSegs, MaxDeepLen)}
    \cup {Line("cd", <<p>>) : p \in PathStrings(NameSegs \cup {".."}, MaxCdLen)}

NextDeep ==
  \/ \E l \in DeepLines : TypeLine(l)
  \/ on_enter_cd
  \/ on_enter_rmdir
  \/ on_enter_cp

SpecDeep == Init /\ [][NextDeep]_vars

(* ------------------------------ every verb, typed --------------------- *)
MaxVerbLen == 1

VerbPaths == PathStrings(NameSegs, MaxVerbLen)

VerbLines ==
  {Line(c, <<>>) : c \in commands \cup {"frobnicate", "Cd", "lsx"}}
    \cup {Line(c, <<p>>) : c \in {"ls", "cat", "rmdir", "cp", "vfsinfo"}, p \in VerbPaths}
    \cup {Line("ls", <<DotPath>>)}
    \cup {Line("cp", <<s, d>>) : s \in VerbPaths, d \in VerbPaths}
    \cup CdLines

\* payloads cat tells apart: no bytes, bytes that are not UTF-8, blank text,
\* text of mostly unprintable characters, text of two lines
TreePayloads1 == Tree({<<<<"a">>, VFSFile("a", <<>>)>>, <<<<"f">>, VFSFile("f", <<255, 97>>)>>})

TreePayloads2 ==
  Tree({<<<<"a">>, VFSFile("a", <<32, 10>>)>>, <<<<"f">>, VFSFile("f", <<1, 2, 97>>)>>})

TreePayloads3 == Tree({<<<<"a">>, VFSFile("a", <<97, 10, 195, 169>>)>>})

InitVerbs ==
  /\ vfs_root \in LoadableTrees \cup {TreePayloads1, TreePayloads2, TreePayloads3, NoTree}
  /\ order = load_order(vfs_root)
  /\ cwd = <<>>
  /\ input_var = NoLine
  /\ out = <<>>
  /\ branch = "init"
  /\ copied = NoCopy
  /\ res = NoRes
  /\ NoSession

on_enter_ls ==
  /\ input_var.cmd = "ls"
  /\ Dispatched(cmd_ls(vfs_root, cwd, input_var.args))
  /\ UNCHANGED <<copied, res, session>>

on_enter_cat ==
  /\ input_var.cmd = "cat"
  /\ Dispatched(cmd_cat(vfs_root, cwd, input_var.args))
  /\ UNCHANGED <<copied, res, session>>

on_enter_vfsinfo ==
  /\ input_var.cmd = "vfsinfo"
  /\ Dispatched(cmd_vfsinfo(vfs_root, cwd, input_var.args))
  /\ UNCHANGED <<copied, res, session>>

on_enter_uptime ==
  /\ input_var.cmd = "uptime"
  /\ \E h \in cmd_uptime(vfs_root, cwd, input_var.args) : Dispatched(h)
  /\ UNCHANGED <<copied, res, session>>

on_enter_whoami ==
  /\ input_var.cmd = "whoami"
  /\ Dispatched(cmd_whoami(vfs_root, cwd, input_var.args))
  /\ UNCHANGED <<copied, res, session>>

\* cmd_exit destroys the window: nothing is typed or run after it
on_enter_exit ==
  /\ input_var.cmd = "exit"
  /\ Dispatched(cmd_exit(vfs_root, cwd, input_var.args))
  /\ alive' = FALSE
  /\ UNCHANGED <<copied, res, startup_script, timers, log, vfs_path>>

NextVerbs ==
  \/ \E l \in VerbLines : TypeLine(l)
  \/ on_enter_ls
  \/ on_enter_cd
  \/ on_enter_cat
  \/ on_enter_vfsinfo
  \/ on_enter_uptime
  \/ on_enter_whoami
  \/ on_enter_rmdir
  \/ on_enter_cp
  \/ on_enter_exit
  \/ on_enter_unknown

SpecVerbs == InitVerbs /\ [][NextVerbs]_vars

(* ------------------------------ the startup script -------------------- *)
MaxScriptLen == 3

delay_ms == 300

startup_delay_ms == 200

\* a line of the script file: whether it starts with blanks, whether its
\* first non-blank character is '#', and the tokens that follow
Raw(indent, hash, cmd, args) == [indent |-> indent, hash |-> hash, cmd |-> cmd, args |-> args]

EmptyRaw == Raw(FALSE, FALSE, "", <<>>)

\* ln.strip() == ''
strips_to_nothing(ln) == ~ln.hash /\ ln.cmd = ""

\* line.split(): the first token and the tokens after it
parts(ln) ==
  IF ln.hash THEN [cmd |-> "#" \o ln.cmd, args |-> ln.args]
  ELSE [cmd |-> ln.cmd, args |-> ln.args]

\* the filter without its test for '#': only blank lines are dropped
retained_keep_comments(raw_lines) ==
  SelectSeq(raw_lines, LAMBDA ln : ~strips_to_nothing(ln))

\* the lines run_startup_script keeps
retained(raw_lines) ==
  SelectSeq(raw_lines, LAMBDA ln : ~strips_to_nothing(ln) /\ ~ln.hash)

\* after() on a queue that runs the newest callback first
after_front(ts, ms, callback) ==
  <<[due |-> ms, call |-> callback.call, line |-> callback.line, idx |-> callback.idx]>>
    \o ts

\* after(ms, callback): the event loop keeps its timers in the order they
\* fall due, a new one behind those due at the same time
after(ts, ms, callback) ==
  LET k == Cardinality({i \in DOMAIN ts : ts[i].due <= ms})
  IN SubSeq(ts, 1, k)
       \o <<[due |-> ms, call |-> callback.call, line |-> callback.line,
             idx |-> callback.idx]>>
       \o SubSeq(ts, k + 1, Len(ts))

\* for i, ln in enumerate(lines): self.after(delay_ms * i, ...), from i on
RECURSIVE schedule(_, _, _)
schedule(ts, lines, i) ==
  IF i >= Len(lines) THEN ts
  ELSE schedule(after(ts, delay_ms * i,
                      [call |-> "execute_line", line |-> lines[i + 1], idx |-> i]),
                lines, i + 1)

ScriptTexts ==
  {Raw(FALSE, FALSE, "cd", <<[abs |-> FALSE, segs |-> <<"a">>]>>),
   Raw(TRUE, FALSE, "rmdir", <<[abs |-> FALSE, segs |-> <<"a">>]>>),
   Raw(FALSE, FALSE, "frobnicate", <<>>),
   Raw(FALSE, FALSE, "exit", <<>>),
   Raw(TRUE, TRUE, "cd", <<[abs |-> FALSE, segs |-> <<"a">>]>>),
   Raw(TRUE, FALSE, "", <<>>)}

Scripts ==
  {[given |-> TRUE, isfile |-> TRUE, lines |-> ls] : ls \in SegSeqs(ScriptTexts, MaxScriptLen)}
    \cup {[given |-> TRUE, isfile |-> FALSE, lines |-> <<>>], NoScript}

\* what the user types while the script is replayed
ScriptSessionLines == {Line("cd", <<>>), Line("exit", <<>>)}

InitScript ==
  /\ vfs_root \in {TreeEmptyDir, NoTree}
  /\ order = load_order(vfs_root)
  /\ cwd = <<>>
  /\ input_var = NoLine
  /\ branch = "init"
  /\ copied = NoCopy
  /\ res = NoRes
  /\ alive = TRUE
  /\ startup_script \in Scripts
  /\ out = IF startup_script.given /\ ~startup_script.isfile
             THEN <<"script_not_found">> ELSE <<>>
  /\ timers = IF startup_script.given /\ startup_script.isfile
                THEN after(<<>>, startup_delay_ms,
                           [call |-> "run_startup_script", line |-> EmptyRaw, idx |-> 0])
                ELSE <<>>
  /\ log = <<>>
  /\ vfs_path = NoPath

\* run_startup_script without its test for an empty list of lines: the loop
\* schedules nothing and nothing is written
run_startup_script_unchecked ==
  /\ alive
  /\ timers # <<>>
  /\ Head(timers).call = "run_startup_script"
  /\ \E readable \in BOOLEAN :
       LET lines == retained(startup_script.lines)
       IN IF ~readable
            THEN /\ out' = <<"script_open_failed">>
                 /\ branch' = "script:open_failed"
                 /\ timers' = Tail(timers)
          ELSE /\ out' = <<>>
               /\ branch' = "script:scheduled"
               /\ timers' = schedule(Tail(timers), lines, 0)
  /\ UNCHANGED <<vfs_root, order, cwd, input_var, copied, res, alive, startup_script, log,
               vfs_path>>

run_startup_script ==
  /\ alive
  /\ timers # <<>>
  /\ Head(timers).call = "run_startup_script"
  /\ \E readable \in BOOLEAN :
       LET lines == retained(startup_script.lines)
       IN IF ~readable
            THEN /\ out' = <<"script_open_failed">>
                 /\ branch' = "script:open_failed"
                 /\ timers' = Tail(timers)
          ELSE IF lines = <<>>
            THEN /\ out' = <<"script_empty">>
                 /\ branch' = "script:empty"
                 /\ timers' = Tail(timers)
          ELSE /\ out' = <<>>
               /\ branch' = "script:scheduled"
               /\ timers' = schedule(Tail(timers), lines, 0)
  /\ UNCHANGED <<vfs_root, order, cwd, input_var, copied, res, alive, startup_script, log,
               vfs_path>>

\* execute_line that gives the replay up at the first line that fails
execute_line_abort_on_error ==
  /\ alive
  /\ timers # <<>>
  /\ Head(timers).call = "execute_line"
  /\ LET line == Head(timers).line
         cmd == parts(line).cmd
         args == parts(line).args
         entry(h) == [idx |-> Head(timers).idx, cmd |-> cmd,
                      report |-> h.out[Len(h.out)]]
         unknown == H(vfs_root, cwd, <<"unknown_command_in_script">>, "script:unknown")
         failed(h) == h.out[Len(h.out)] \in
                        {"unknown_command_in_script", "cd_failed", "cd_root_failed",
                         "rmdir_not_found", "vfs_not_loaded"}
     IN IF cmd \in commands
          THEN \E h \in handler(cmd, vfs_root, cwd, args) :
                 /\ Ran(h)
                 /\ alive' = (cmd # "exit")
                 /\ log' = Append(log, entry(h))
                 /\ timers' = IF failed(h) THEN <<>> ELSE Tail(timers)
          ELSE /\ Ran(unknown)
               /\ alive' = alive
               /\ log' = Append(log, entry(unknown))
               /\ timers' = <<>>
  /\ UNCHANGED <<input_var, copied, res, startup_script, vfs_path>>

\* execute_line on timers that outlive the window: a step that is due runs
\* although exit was dispatched
execute_line_after_destroy ==
  /\ timers # <<>>
  /\ Head(timers).call = "execute_line"
  /\ LET line == Head(timers).line
         cmd == parts(line).cmd
         args == parts(line).args
         entry(h) == [idx |-> Head(timers).idx, cmd |-> cmd,
                      report |-> h.out[Len(h.out)]]
         unknown == H(vfs_root, cwd, <<"unknown_command_in_script">>, "script:unknown")
     IN IF cmd \in commands
          THEN \E h \in handler(cmd, vfs_root, cwd, args) :
                 /\ Ran(h)
                 /\ alive' = (alive /\ cmd # "exit")
                 /\ log' = Append(log, entry(h))
          ELSE /\ Ran(unknown)
               /\ alive' = alive
               /\ log' = Append(log, entry(unknown))
  /\ timers' = Tail(timers)
  /\ UNCHANGED <<input_var, copied, res, startup_script, vfs_path>>

\* one line of the script, run when its timer falls due; the line written for
\* an unknown verb names it and says that the script line is skipped
execute_line ==
  /\ alive
  /\ timers # <<>>
  /\ Head(timers).call = "execute_line"
  /\ LET line == Head(timers).line
         cmd == parts(line).cmd
         args == parts(line).args
         entry(h) == [idx |-> Head(timers).idx, cmd |-> cmd,
                      report |-> h.out[Len(h.out)]]
         unknown == H(vfs_root, cwd, <<"unknown_command_in_script">>, "script:unknown")
     IN IF line = EmptyRaw
          THEN UNCHANGED <<vfs_root, order, cwd, out, branch, alive, log>>
        ELSE IF cmd = ""
          THEN /\ out' = <<"echo">>
               /\ branch' = "script:no_parts"
               /\ UNCHANGED <<vfs_root, order, cwd, alive, log>>
        ELSE IF cmd \in commands
          THEN \E h \in handler(cmd, vfs_root, cwd, args) :
                 /\ Ran(h)
                 /\ alive' = (cmd # "exit")
                 /\ log' = Append(log, entry(h))
          ELSE /\ Ran(unknown)
               /\ alive' = alive
               /\ log' = Append(log, entry(unknown))
  /\ timers' = Tail(timers)
  /\ UNCHANGED <<input_var, copied, res, startup_script, vfs_path>>

NextScript ==
  \/ \E l \in ScriptSessionLines : TypeLine(l)
  \/ on_enter_cd
  \/ on_enter_exit
  \/ run_startup_script
  \/ execute_line

SpecScript == InitScript /\ [][NextScript]_vars

\* the event loop runs every timer that has fallen due
SpecScriptFair ==
  SpecScript /\ WF_vars(run_startup_script) /\ WF_vars(execute_line)

(* ------------------------------ vocabulary of the properties ---------- *)
Loaded == vfs_root # NoTree

\* the step is on_enter dispatching a line whose verb is c
Enters(c) == input_var.cmd = c /\ input_var' = NoLine

Arg(i) == input_var.args[i]

Target(p) == resolve_path(vfs_root, cwd, p)

IsDirAt(t, loc) == loc \in DOMAIN t /\ t[loc].kind = "dir"

IsFileAt(t, loc) == loc \in DOMAIN t /\ t[loc].kind = "file"

ResolvesToDir(p) == Loaded /\ Target(p).found /\ IsDirAt(vfs_root, Target(p).loc)

ResolvesToFile(p) == Loaded /\ Target(p).found /\ IsFileAt(vfs_root, Target(p).loc)

RmdirFailures ==
  {"rmdir_need_path", "vfs_not_loaded", "rmdir_not_found", "rmdir_not_dir",
   "rmdir_not_empty", "rmdir_no_parent", "rmdir_remove_failed"}

CpFailures ==
  {"cp_need_args", "vfs_not_loaded", "cp_src_not_found", "cp_src_is_dir",
   "cp_no_parent_of_file", "cp_no_parent", "cp_dest_unavailable", "cp_dir_in_the_way"}

Last(s) == s[Len(s)]

Front(s) == SubSeq(s, 1, Len(s) - 1)

(* ------------------------------ C1 ------------------------------------ *)
\* C1: rmdir never detaches a non-empty directory.  Whenever rmdir is
\* dispatched with a path that resolves (from the current cwd) to a Directory
\* with at least one child, it reports a failure and the tree and cwd after
\* the command equal the tree and cwd before it.
C1_RmdirKeepsNonEmpty ==
  [][(/\ Enters("rmdir")
      /\ Len(input_var.args) >= 1
      /\ ResolvesToDir(Arg(1))
      /\ children(vfs_root, Target(Arg(1)).loc) # {})
     => (/\ vfs_root' = vfs_root
         /\ cwd' = cwd
         /\ Len(out') = 2
         /\ out'[2] \in RmdirFailures)]_vars

\* rmdir was refused on a non-empty directory that is not the root
C1_Witness ==
  /\ branch = "rmdir:not_empty"
  /\ out = <<"echo", "rmdir_not_empty">>
  /\ \E l \in DOMAIN vfs_root : l # <<>> /\ IsDirAt(vfs_root, l) /\ children(vfs_root, l) # {}

(* ------------------------------ C2 ------------------------------------ *)
\* C2: rmdir succeeds iff the target is empty.  Whenever rmdir is dispatched
\* with a path that resolves to a Directory D, D is gone from the tree after
\* the command if and only if D had no children when the command was issued.
\* The claim is stated here for every D other than the root (the root has no
\* parent to be detached from), which is the part of it the code must meet.
C2_RmdirIffEmpty ==
  [][(/\ Enters("rmdir")
      /\ Len(input_var.args) >= 1
      /\ ResolvesToDir(Arg(1))
      /\ Target(Arg(1)).loc # <<>>)
     => ((Target(Arg(1)).loc \notin DOMAIN vfs_root')
           <=> (children(vfs_root, Target(Arg(1)).loc) = {}))]_vars

(* ------------------------------ C3 ------------------------------------ *)
\* C3: a failed mutation leaves the tree exactly as it was.  Whenever cp or
\* rmdir ends with any failure report (that is, without its success report),
\* every location of the tree holds the same node, with the same bytes, as
\* before the command, and no location was added or removed.
C3_FailedMutationKeepsTree ==
  [][(/\ (Enters("cp") \/ Enters("rmdir"))
      /\ Last(out') \in RmdirFailures \cup CpFailures)
     => vfs_root' = vfs_root]_vars

\* cp got as far as building the new file and was then refused
C3_Witness ==
  /\ branch = "cp:dir_in_the_way"
  /\ Last(out) = "cp_dir_in_the_way"
  /\ Loaded

(* ------------------------------ the resolver, as the text states it --- *)
Segments(p) == SelectSeq(p.segs, LAMBDA x : x # "" /\ x # ".")

AbsSegments(cur, p) == IF p.abs THEN Segments(p) ELSE cur \o Segments(p)

\* the stack left by reading comps left to right: '..' pops a non-empty
\* stack, anything else is pushed
StackAfter(comps) ==
  LET st[i \in 0..Len(comps)] ==
        IF i = 0 THEN <<>>
        ELSE IF comps[i] = ".."
          THEN (IF st[i - 1] = <<>> THEN <<>> ELSE Front(st[i - 1]))
          ELSE Append(st[i - 1], comps[i])
  IN st[Len(comps)]

\* every segment of the stack names a child of the Directory reached so far
Reaches(t, stack) ==
  \A k \in 1..Len(stack) :
    /\ IsDirAt(t, SubSeq(stack, 1, k - 1))
    /\ SubSeq(stack, 1, k) \in DOMAIN t

NodeReached(t, stack) ==
  IF Reaches(t, stack) THEN [found |-> TRUE, loc |-> stack] ELSE NotFound

\* t with the single entry e set to node, every other entry as in t
WithEntry(t, e, node) == [l \in DOMAIN t \cup {e} |-> IF l = e THEN node ELSE t[l]]

(* ------------------------------ C5 ------------------------------------ *)
\* C5: cp onto an existing File overwrites it in place.  Whenever cp is
\* dispatched with a source that resolves to a File and a destination path
\* that resolves to an existing File, the command succeeds and afterwards the
\* destination location holds a File of the same name with the source's
\* bytes, while every other location holds what it held before.
C5_CpOverwritesFile ==
  [][(/\ Enters("cp")
      /\ Len(input_var.args) >= 2
      /\ ResolvesToFile(Arg(1))
      /\ ResolvesToFile(Arg(2)))
     => LET s == Target(Arg(1)).loc
            d == Target(Arg(2)).loc
        IN /\ Last(out') = "cp_copied"
           /\ vfs_root' = WithEntry(vfs_root, d, VFSFile(Last(d), vfs_root[s].data))]_vars

(* ------------------------------ C6 ------------------------------------ *)
\* the entry cp writes when its destination is the Directory at loc d
IntoDirEntry(p, d) == Append(Target(d).loc, Last(Target(p).loc))

CpIntoDir ==
  /\ Enters("cp")
  /\ Len(input_var.args) >= 2
  /\ ResolvesToFile(Arg(1))
  /\ ResolvesToDir(Arg(2))

CopiedIntoDir ==
  LET s == Target(Arg(1)).loc
      e == IntoDirEntry(Arg(1), Arg(2))
  IN /\ Last(out') = "cp_copied"
     /\ vfs_root' = WithEntry(vfs_root, e, VFSFile(Last(s), vfs_root[s].data))

\* C6 as claimed: whenever the source resolves to a File and the destination
\* to a Directory D, cp leaves in D a File named by the source's base name
\* with the source's bytes, and every other node is unchanged.
C6_CpIntoDirAlways == [][CpIntoDir => CopiedIntoDir]_vars

\* C6 as amended: the same, unless D already holds a Directory under the
\* source's base name; then cp is refused and the tree is unchanged.
C6_CpIntoDir ==
  [][CpIntoDir =>
       IF IsDirAt(vfs_root, IntoDirEntry(Arg(1), Arg(2)))
         THEN Last(out') \in CpFailures /\ vfs_root' = vfs_root
         ELSE CopiedIntoDir]_vars

\* cp into a directory has replaced a file of the source's name there by
\* bytes that differ from the ones it held
C6_Witness ==
  /\ branch = "cp:into_dir"
  /\ Last(out) = "cp_copied"
  /\ IsFileAt(vfs_root, <<"a", "f">>)
  /\ IsFileAt(vfs_root, <<"f">>)
  /\ vfs_root[<<"a", "f">>].data = vfs_root[<<"f">>].data

C8_CpNeverReplacesDir ==
  [][/\ \A l \in DOMAIN vfs_root :
          (IsDirAt(vfs_root, l) /\ l \in DOMAIN vfs_root') => IsDirAt(vfs_root', l)
     /\ (CpIntoDir /\ IsDirAt(vfs_root, IntoDirEntry(Arg(1), Arg(2))))
          => (Last(out') \in CpFailures /\ vfs_root' = vfs_root)]_vars

\* cp was refused because a Directory holds the destination name, and the
\* Directory is still there
C8_Witness ==
  /\ branch = "cp:dir_in_the_way"
  /\ out = <<"echo", "cp_dir_in_the_way">>
  /\ IsDirAt(vfs_root, <<"a", "f">>)

(* ------------------------------ the resolver on its own --------------- *)
ResolveSegs == PathSegs \cup {""}

ResolvePaths == PathStrings(ResolveSegs, MaxResolveLen)

\* a current location is what cd stored: names, and '..' left in by an
\* absolute cd
ResolveCwds == SegSeqs(NameSegs \cup {".."}, MaxCwdLen)

InitResolve ==
  /\ vfs_root \in LoadableTrees
  /\ order = load_order(vfs_root)
  /\ cwd \in ResolveCwds
  /\ input_var = NoLine
  /\ out = <<>>
  /\ branch = "init"
  /\ copied = NoCopy
  /\ res = NoRes
  /\ NoSession

call_resolve_path(p) ==
  /\ ~res.called
  /\ res' = [path |-> p,
             found |-> resolve_path(vfs_root, cwd, p).found,
             loc |-> resolve_path(vfs_root, cwd, p).loc,
             called |-> TRUE]
  /\ UNCHANGED <<vfs_root, order, cwd, input_var, out, branch, copied, session>>

NextResolve == \E p \in ResolvePaths : call_resolve_path(p)

SpecResolve == InitResolve /\ [][NextResolve]_vars

(* ------------------------------ C9 ------------------------------------ *)
\* C9: path resolution is normalize-then-walk.  The result of resolve_path is
\* the node at the stack obtained from the path's segments (split on '/',
\* empty and '.' segments dropped, cwd's segments in front unless the path
\* starts with '/') by popping on '..' and pushing otherwise; it is not-found
\* exactly when some segment of the stack is not a child of the Directory
\* reached so far, and it is the root when the stack is empty.
C9_ResolveIsNormalizeThenWalk ==
  res.called =>
    LET stack == StackAfter(AbsSegments(cwd, res.path))
    IN /\ res.found <=> Reaches(vfs_root, stack)
       /\ res.found => res.loc = stack
       /\ stack = <<>> => (res.found /\ res.loc = <<>>)

\* a relative path with '.', '..' and a name, resolved below a non-root cwd
\* to a node that is not the root
C9_Witness ==
  /\ res.called
  /\ res.found
  /\ res.loc # <<>>
  /\ ~res.path.abs
  /\ cwd # <<>>
  /\ \E i, j \in DOMAIN res.path.segs : res.path.segs[i] = ".." /\ res.path.segs[j] = "."

(* ------------------------------ C10 ----------------------------------- *)
\* comps without the '..' segments that are met when nothing is left to pop
RECURSIVE DropSurplus(_, _)
DropSurplus(comps, depth) ==
  IF comps = <<>> THEN <<>>
  ELSE IF Head(comps) = ".."
    THEN (IF depth = 0 THEN DropSurplus(Tail(comps), 0)
          ELSE <<"..">> \o DropSurplus(Tail(comps), depth - 1))
    ELSE <<Head(comps)>> \o DropSurplus(Tail(comps), depth + 1)

\* C10: '..' at the root is a no-op.  When the segments of a path hold '..'
\* segments that outnumber the segments before them, resolve_path returns what
\* it returns for the absolute path made of the same segments without the
\* surplus '..' (so '/../x' resolves as '/x'); what it finds is a node of the
\* tree, and a path made of surplus '..' only resolves to the root.
C10_DotDotAtRootIsNoOp ==
  LET comps == AbsSegments(cwd, res.path)
      kept == DropSurplus(comps, 0)
      same == resolve_path(vfs_root, cwd, [abs |-> TRUE, segs |-> kept])
  IN (res.called /\ kept # comps) =>
       /\ res.found = same.found
       /\ res.loc = same.loc
       /\ res.found => res.loc \in DOMAIN vfs_root
       /\ kept = <<>> => (res.found /\ res.loc = <<>>)

\* '/../a' (or a spelling like it) has resolved to a node below the root
C10_Witness ==
  /\ res.called
  /\ res.path.abs
  /\ res.path.segs # <<>>
  /\ res.path.segs[1] = ".."
  /\ res.found
  /\ res.loc # <<>>

(* ------------------------------ resolve_parent on its own ------------- *)
\* the current location is a Directory of the tree
InitParent ==
  /\ vfs_root \in LoadableTrees
  /\ order = load_order(vfs_root)
  /\ cwd \in {c \in SegSeqs(NameSegs, MaxCwdLen) : IsDirAt(vfs_root, c)}
  /\ input_var = NoLine
  /\ out = <<>>
  /\ branch = "init"
  /\ copied = NoCopy
  /\ res = NoRes
  /\ NoSession

call_resolve_parent(p) ==
  /\ ~res.called
  /\ res' = [path |-> p,
             found |-> resolve_parent(vfs_root, cwd, p).found,
             loc |-> resolve_parent(vfs_root, cwd, p).loc,
             name |-> resolve_parent(vfs_root, cwd, p).name,
             called |-> TRUE]
  /\ UNCHANGED <<vfs_root, order, cwd, input_var, out, branch, copied, session>>

NextParent == \E p \in ResolvePaths : call_resolve_parent(p)

SpecParent == InitParent /\ [][NextParent]_vars

(* ------------------------------ C11 ----------------------------------- *)
\* C11: resolve_parent normalizes as resolve_path does.  For every tree, cwd
\* and path whose normalized segment sequence is not empty, resolve_parent
\* returns the Directory reached by that sequence without its last segment,
\* paired with the last normalized segment (and nothing when no Directory is
\* reached); so whenever the path resolves to a node N other than the root,
\* the pair returned is N's parent and N's name.
C11_ParentOfNormalizedPath ==
  LET stack == StackAfter(AbsSegments(cwd, res.path))
      P == NodeReached(vfs_root, Front(stack))
  IN (res.called /\ stack # <<>>) =>
       /\ res.found <=> (P.found /\ IsDirAt(vfs_root, P.loc))
       /\ res.found => (res.loc = Front(stack) /\ res.name = Last(stack))
       /\ NodeReached(vfs_root, stack).found
            => (res.found /\ Append(res.loc, res.name) = stack)

(* ------------------------------ C12 ----------------------------------- *)
RootInPlace(t) == <<>> \in DOMAIN t /\ t[<<>>] = VFSDirectory("/")

\* C12: the root is permanent.  In every state reached after a successful
\* load the tree has its root, a Directory named '/', and no command unloads
\* the tree; in particular rmdir and cp aimed at '/', '/.', '/..' and the like
\* neither remove the root nor put a File in its place.
C12_RootIsPermanent ==
  /\ [](Loaded => RootInPlace(vfs_root))
  /\ [][Loaded => Loaded']_vars

\* rmdir got as far as remove_child on a path that names the (empty) root,
\* and the root is still there
C12_Witness ==
  /\ branch = "rmdir:remove_failed"
  /\ vfs_root = TreeEmpty
  /\ RootInPlace(vfs_root)

(* ------------------------------ C13 ----------------------------------- *)
\* every entry below the root is stored under its node's own name, in a
\* Directory of the tree
TreeShape(t) ==
  \A l \in DOMAIN t \ {<<>>} :
    /\ t[l].name = Last(l)
    /\ IsDirAt(t, Front(l))

\* C13: tree-shape invariant.  In every state reached from a loaded tree by
\* cp and rmdir (and cd) commands every child is stored under a key equal to
\* its own name, so the names within a Directory are unique, and every node
\* other than the root hangs in exactly one Directory of the tree, the one its
\* location names; the locations form a tree under the root.
C13_TreeShape == Loaded => (RootInPlace(vfs_root) /\ TreeShape(vfs_root))

\* a directory was removed and cp has then created a file under its name
C13_Witness ==
  /\ branch = "cp:new_name"
  /\ Last(out) = "cp_copied"
  /\ IsFileAt(vfs_root, <<"a">>)
  /\ IsFileAt(vfs_root, <<"f">>)

(* ------------------------------ C14 ----------------------------------- *)
CdFailures == {"cd_failed", "cd_root_failed"}

\* the path given to cd leads to no node, or to a File
LeadsToNoDirectory(p) ==
  LET n == NodeReached(vfs_root, StackAfter(AbsSegments(cwd, p)))
  IN ~n.found \/ IsFileAt(vfs_root, n.loc)

\* C14: a failed cd leaves the current location unchanged.  Whenever cd is
\* dispatched while no tree is loaded, or with a path that does not resolve or
\* resolves to a File, it reports an error and cwd is the segment sequence it
\* was before; and no cd, failed or not, changes the tree.
C14_FailedCdKeepsCwd ==
  [][Enters("cd") =>
       /\ vfs_root' = vfs_root
       /\ (~Loaded \/ (input_var.args # <<>> /\ LeadsToNoDirectory(Arg(1))))
            => (Last(out') \in CdFailures /\ cwd' = cwd)]_vars

\* cd to a File was refused below the root, and the session is still there
C14_Witness ==
  /\ branch = "cd:failed"
  /\ Last(out) = "cd_failed"
  /\ cwd = <<"a">>
  /\ IsFileAt(vfs_root, <<"a", "f">>)

(* ------------------------------ C15 ----------------------------------- *)
\* C15: after every successful cd the current location is the normalized
\* absolute segment sequence of the target.  It holds no '.', no '..' and no
\* empty segment, walking it from the root reaches a Directory, and it is the
\* location the path argument resolved to; with no argument it is the empty
\* sequence.
C15_CdStoresNormalizedLocation ==
  [][(Enters("cd") /\ Last(out') \in {"cd_ok", "cd_root"}) =>
       /\ \A i \in DOMAIN cwd' : cwd'[i] \notin {".", "..", ""}
       /\ Reaches(vfs_root', cwd')
       /\ IsDirAt(vfs_root', cwd')
       /\ input_var.args # <<>> => cwd' = StackAfter(AbsSegments(cwd, Arg(1)))
       /\ input_var.args = <<>> => cwd' = <<>>]_vars

(* ------------------------------ C16 ----------------------------------- *)
VfsVerbs == {"ls", "cd", "cat", "vfsinfo", "cp", "rmdir"}

\* the step dispatches a VFS-dependent verb while no tree is loaded
EntersUnloaded == ~Loaded /\ \E c \in VfsVerbs : Enters(c)

Reports(msgs, m) == \E i \in DOMAIN msgs : msgs[i] = m

\* nothing was loaded by the command, the session is where it was and alive
StillUnloaded == vfs_root' = NoTree /\ cwd' = <<>> /\ cwd = <<>> /\ alive'

\* the arguments the verb cannot do without: a path for cat and rmdir, two
\* for cp
ArgsNeeded(c) == IF c = "cp" THEN 2 ELSE IF c \in {"cat", "rmdir"} THEN 1 ELSE 0

UsageReports == {"cat_need_path", "rmdir_need_path", "cp_need_args"}

\* C16 as claimed: when no tree is loaded, every dispatch of ls, cd, cat,
\* vfsinfo, cp or rmdir, with any arguments, reports the 'not loaded'
\* condition and leaves the session with no tree and cwd at the root.
C16_NotLoadedAlways ==
  [][EntersUnloaded => (Reports(out', "vfs_not_loaded") /\ StillUnloaded)]_vars

\* C16 as amended: the same for every dispatch that carries the arguments
\* the verb needs; cat and rmdir without a path and cp with fewer than two
\* paths report the missing argument instead, and leave the session with no
\* tree and cwd at the root as well.
C16_NotLoaded ==
  [][EntersUnloaded =>
       /\ StillUnloaded
       /\ IF Len(input_var.args) >= ArgsNeeded(input_var.cmd)
            THEN Reports(out', "vfs_not_loaded")
            ELSE Last(out') \in UsageReports /\ ~Reports(out', "vfs_not_loaded")]_vars

\* cat was given a path while no tree was loaded
C16_Witness ==
  /\ ~Loaded
  /\ branch = "cat:not_found"
  /\ Reports(out, "vfs_not_loaded")
  /\ alive

(* ------------------------------ C17 ----------------------------------- *)
\* the lines that report an error
ErrorReports ==
  RmdirFailures \cup CpFailures \cup CdFailures
    \cup {"vfs_not_loaded", "ls_not_found", "cat_need_path", "cat_not_found", "cat_is_dir",
          "unknown_command", "unknown_command_in_script"}

ErrorCount(msgs) == Cardinality({i \in DOMAIN msgs : msgs[i] \in ErrorReports})

\* C17: every error becomes a single message.  Whenever a command line is
\* dispatched, tree loaded or not, and the command fails, the lines written
\* for it hold exactly one error message besides the echo, never two or more.
C17_OneErrorMessage ==
  [][(input_var # NoLine /\ input_var' = NoLine) => ErrorCount(out') <= 1]_vars

(* ------------------------------ C18 ----------------------------------- *)
\* the step dispatches a typed line whose first token is no verb
TypedUnknown ==
  /\ input_var # NoLine
  /\ input_var.cmd \notin commands
  /\ input_var' = NoLine

\* the step replays a script line whose first token is no verb
ReplayedUnknown ==
  /\ alive
  /\ timers # <<>>
  /\ Head(timers).call = "execute_line"
  /\ parts(Head(timers).line).cmd \notin commands \cup {""}
  /\ timers' = Tail(timers)

\* the reports that list the verbs of the command table
ReportsListingVerbs == {"unknown_command"}

\* C18: an unrecognized verb is a reported, non-fatal error that lists the
\* known verbs, typed or replayed from the script.  The tree and cwd are
\* unchanged, the session stays alive, and the report lists the verbs.
C18_UnknownVerbReported ==
  [][(TypedUnknown \/ ReplayedUnknown) =>
       /\ vfs_root' = vfs_root
       /\ cwd' = cwd
       /\ alive'
       /\ Last(out') \in ReportsListingVerbs]_vars

(* ------------------------------ C19 ----------------------------------- *)
\* C19: script replay dispatches the retained lines strictly in file order,
\* one at a time.  The lines dispatched so far are the first retained lines
\* of the file, each once and in the order of the file: the k-th dispatch is
\* the k-th retained line, so for retained lines i < j, line i was dispatched,
\* and its handler had returned, before line j is.
C19_ScriptOrder ==
  /\ Len(log) <= Len(retained(startup_script.lines))
  /\ \A k \in DOMAIN log :
       /\ log[k].idx = k - 1
       /\ log[k].cmd = retained(startup_script.lines)[k].cmd

\* two different lines were replayed from a file that holds a comment line
\* between them
C19_Witness ==
  /\ Len(log) = 2
  /\ Len(startup_script.lines) = 3
  /\ startup_script.lines[2].hash
  /\ log[1].cmd # log[2].cmd

(* ------------------------------ C20 ----------------------------------- *)
\* the timer of the retained line i is waiting
Pending(i) ==
  \E k \in DOMAIN timers : timers[k].call = "execute_line" /\ timers[k].idx = i

InLog(i) == \E k \in DOMAIN log : log[k].idx = i

\* the step is run_startup_script having read the file and found lines to run
SchedulesLines ==
  /\ timers # <<>>
  /\ Head(timers).call = "run_startup_script"
  /\ branch' = "script:scheduled"

\* C20: a failing script line never prevents later lines from executing.
\* Every retained line gets its timer when the script is read; with an event
\* loop that runs the timers that are due, and unless exit is dispatched,
\* every line whose timer waits is eventually dispatched, whatever the lines
\* before it reported; and no line is dispatched twice.
C20_EveryLineRuns ==
  /\ [][SchedulesLines =>
          \A i \in 0..(Len(retained(startup_script.lines)) - 1) : Pending(i)']_vars
  /\ \A i \in 0..(MaxScriptLen - 1) : Pending(i) ~> (InLog(i) \/ ~alive)
  /\ [](\A k, l \in DOMAIN log : log[k].idx = log[l].idx => k = l)

\* the third line of a script was replayed after an unknown verb and a
\* command that failed
C20_Witness ==
  /\ Len(log) = 3
  /\ log[1].report = "unknown_command_in_script"
  /\ log[2].report \in CdFailures \cup RmdirFailures
  /\ alive

(* ------------------------------ copies, followed over time ------------ *)
\* the entry a successful cp src dst writes
CpEntry(src, dst) ==
  IF ResolvesToDir(dst) THEN IntoDirEntry(src, dst)
  ELSE IF ResolvesToFile(dst) THEN Target(dst).loc
  ELSE LET comps == AbsSegments(cwd, dst)
       IN Append(NodeReached(vfs_root, StackAfter(Front(comps))).loc, Last(comps))

\* copied remembers one successful cp: where it read, where it wrote, the
\* bytes it copied, and whether a later cp has written the source entry
\* (srcSame) or the destination entry (dstSame) again
Track(h) ==
  IF Last(h.out) # "cp_copied" THEN {copied}
  ELSE LET s == Target(Arg(1)).loc
           e == CpEntry(Arg(1), Arg(2))
       IN {[on |-> TRUE, src |-> s, dst |-> e, data |-> vfs_root[s].data,
            srcSame |-> TRUE, dstSame |-> TRUE],
           [copied EXCEPT !.srcSame = @ /\ e # copied.src,
                          !.dstSame = @ /\ e # copied.dst]}

on_enter_cp_tracked ==
  /\ input_var.cmd = "cp"
  /\ Dispatched(cmd_cp(vfs_root, cwd, input_var.args))
  /\ copied' \in Track(cmd_cp(vfs_root, cwd, input_var.args))
  /\ UNCHANGED <<res, session>>

CopyLines ==
  {Line("cp", <<s, d>>) : s \in PathStrings(NameSegs, MaxCopyLen),
                          d \in PathStrings(NameSegs, MaxCopyLen)}
    \cup {Line("cd", <<p>>) : p \in PathStrings(NameSegs \cup {".."}, MaxCopyLen)}
    \cup {Line("rmdir", <<p>>) : p \in PathStrings(NameSegs, MaxCopyLen)}

InitCopy ==
  /\ vfs_root \in {TreeEmptyDir, TreeTwoFiles}
  /\ order = load_order(vfs_root)
  /\ cwd = <<>>
  /\ input_var = NoLine
  /\ out = <<>>
  /\ branch = "init"
  /\ copied = NoCopy
  /\ res = NoRes
  /\ NoSession

NextCopy ==
  \/ \E l \in CopyLines : TypeLine(l)
  \/ on_enter_cd
  \/ on_enter_rmdir
  \/ on_enter_cp_tracked

SpecCopy == InitCopy /\ [][NextCopy]_vars

(* ------------------------------ C4 ------------------------------------ *)
\* C4: deep copy law.  After a successful cp the destination holds the bytes
\* the source had at copy time, and it keeps them through every later command
\* until the destination entry itself is written again, whatever is copied
\* over the source meanwhile; likewise the source keeps those bytes until it
\* is written again, whatever is copied over the destination.
C4_DeepCopy ==
  copied.on =>
    /\ copied.dstSame =>
         (IsFileAt(vfs_root, copied.dst) /\ vfs_root[copied.dst].data = copied.data)
    /\ copied.srcSame =>
         (IsFileAt(vfs_root, copied.src) /\ vfs_root[copied.src].data = copied.data)

\* the source of a remembered copy now holds other bytes, the destination
\* still holds the copied ones
C4_Witness ==
  /\ copied.on
  /\ ~copied.srcSame
  /\ copied.dstSame
  /\ copied.src # copied.dst
  /\ IsFileAt(vfs_root, copied.src)
  /\ vfs_root[copied.src].data # copied.data
  /\ vfs_root[copied.dst].data = copied.data

(* ------------------------------ scripts with comments and blanks ------ *)
\* the lines of a script file the filter has to tell apart: an empty line, a
\* line of blanks, '#' in the first column, '#' after blanks, a command, and
\* a command with '#' as its argument
CommentTexts ==
  {EmptyRaw,
   Raw(TRUE, FALSE, "", <<>>),
   Raw(FALSE, TRUE, "", <<>>),
   Raw(TRUE, TRUE, "cd", <<[abs |-> FALSE, segs |-> <<"a">>]>>),
   Raw(FALSE, FALSE, "cd", <<[abs |-> FALSE, segs |-> <<"a">>]>>),
   Raw(TRUE, FALSE, "cd", <<[abs |-> FALSE, segs |-> <<"#">>]>>),
   Raw(FALSE, FALSE, "rmdir", <<[abs |-> TRUE, segs |-> <<"a">>]>>)}

CommentScripts ==
  {[given |-> TRUE, isfile |-> TRUE, lines |-> ls] : ls \in SegSeqs(CommentTexts, MaxScriptLen)}

InitComments ==
  /\ vfs_root \in {TreeEmptyDir, NoTree}
  /\ order = load_order(vfs_root)
  /\ cwd = <<>>
  /\ input_var = NoLine
  /\ branch = "init"
  /\ copied = NoCopy
  /\ res = NoRes
  /\ alive = TRUE
  /\ startup_script \in CommentScripts
  /\ out = <<>>
  /\ timers = after(<<>>, startup_delay_ms,
                    [call |-> "run_startup_script", line |-> EmptyRaw, idx |-> 0])
  /\ log = <<>>
  /\ vfs_path = NoPath

SpecComments == InitComments /\ [][NextScript]_vars

(* ------------------------------ C21 ----------------------------------- *)
\* the line is empty or holds blanks only
BlankLine(ln) == ln.cmd = "" /\ ~ln.hash

\* the first character of the line that is not a blank is '#'
CommentLine(ln) == ln.hash

\* the lines of the file that are neither blank nor comment, in file order
CommandLines == SelectSeq(startup_script.lines, LAMBDA ln : ~BlankLine(ln) /\ ~CommentLine(ln))

\* the lines whose steps wait in the timer queue, in the order they fall due
PendingLines ==
  LET steps == SelectSeq(timers, LAMBDA t : t.call = "execute_line")
  IN [k \in 1..Len(steps) |-> steps[k].line]

\* the first tokens of the lines replayed so far
ReplayedVerbs == [k \in 1..Len(log) |-> log[k].cmd]

\* C21: comment and blank lines never reach the dispatcher.  A line that is
\* empty, whitespace-only, or whose first non-space character is '#' never
\* gets a step, so it is never echoed, never looked up in the command table
\* and never changes the tree or cwd; every other line is retained: once the
\* file is read, the lines replayed followed by the lines still waiting are
\* exactly the other lines of the file, in file order.
C21_CommentsNeverDispatched ==
  /\ \A k \in DOMAIN PendingLines :
       ~BlankLine(PendingLines[k]) /\ ~CommentLine(PendingLines[k])
  /\ branch # "script:no_parts"
  /\ (log # <<>> \/ PendingLines # <<>> \/ branch = "script:scheduled") =>
       ReplayedVerbs \o [k \in 1..Len(PendingLines) |-> parts(PendingLines[k]).cmd]
         = [k \in 1..Len(CommandLines) |-> CommandLines[k].cmd]
  /\ Len(log) <= Len(CommandLines)

\* a file of a comment, a blank line and one command has been replayed: one
\* line was dispatched and nothing waits
C21_Witness ==
  /\ Len(startup_script.lines) = 3
  /\ CommentLine(startup_script.lines[1])
  /\ BlankLine(startup_script.lines[2])
  /\ Len(log) = 1
  /\ timers = <<>>
  /\ alive

(* ------------------------------ C22 ----------------------------------- *)
\* the step replays a script line whose verb is exit
ReplaysExit ==
  /\ alive
  /\ timers # <<>>
  /\ Head(timers).call = "execute_line"
  /\ parts(Head(timers).line).cmd = "exit"
  /\ timers' = Tail(timers)

\* C22: terminating the session discards pending script steps.  Once exit
\* has been dispatched, typed or replayed, the window is gone for good and no
\* step that was still pending is dispatched afterwards: nothing is replayed,
\* and the tree and cwd stay as they are.  The effects of the steps dispatched
\* before are not rolled back: the exit step itself leaves the tree, the cwd
\* and the record of the lines replayed before it as they were.
C22_ExitDiscardsPending ==
  /\ [][(Enters("exit") \/ ReplaysExit) => ~alive']_vars
  /\ [][~alive => (/\ ~alive'
                   /\ log' = log
                   /\ vfs_root' = vfs_root
                   /\ cwd' = cwd)]_vars
  /\ [][(alive /\ ~alive') => (/\ vfs_root' = vfs_root
                               /\ cwd' = cwd
                               /\ IsPrefix(log, log'))]_vars

\* the script changed the directory and then dispatched exit while a third
\* line was still waiting: the line waits for ever, the cwd is the one the
\* first line left
C22_Witness ==
  /\ ~alive
  /\ Len(log) = 2
  /\ log[2].cmd = "exit"
  /\ Pending(2)
  /\ cwd = <<"a">>

(* ------------------------------ C23 ----------------------------------- *)
\* the step is run_startup_script having read the file
ReadsScript ==
  /\ timers # <<>>
  /\ Head(timers).call = "run_startup_script"
  /\ timers' # timers
  /\ branch' # "script:open_failed"

StepsWaiting(ts) == {k \in DOMAIN ts : ts[k].call = "execute_line"}

ReadsWaiting(ts) == {k \in DOMAIN ts : ts[k].call = "run_startup_script"}

\* C23: an empty script is reported once and executes nothing.  When the
\* file is read and no line remains after the blank and comment lines are
\* filtered out, run_startup_script writes the 'script is empty' report, one
\* line, schedules no step and leaves the tree and cwd alone; the file is read
\* at most once, so the report is written once, and no line of such a file is
\* ever dispatched.
C23_EmptyScriptReportedOnce ==
  /\ [][(ReadsScript /\ CommandLines = <<>>) =>
          /\ out' = <<"script_empty">>
          /\ StepsWaiting(timers') = {}
          /\ vfs_root' = vfs_root
          /\ cwd' = cwd
          /\ log' = log]_vars
  /\ [][(Reports(out', "script_empty") /\ out' # out) =>
          (ReadsScript /\ ReadsWaiting(timers') = {})]_vars
  /\ [](Cardinality(ReadsWaiting(timers)) <= 1)
  /\ [](CommandLines = <<>> => (log = <<>> /\ StepsWaiting(timers) = {}))

\* a file of three lines, every one blank or a comment, was read and reported
\* as empty
C23_Witness ==
  /\ branch = "script:empty"
  /\ out = <<"script_empty">>
  /\ Len(startup_script.lines) = 3
  /\ \E k \in 1..3 : CommentLine(startup_script.lines[k])
  /\ \E k \in 1..3 : BlankLine(startup_script.lines[k])
  /\ timers = <<>>
  /\ log = <<>>

(* ------------------------------ listing directories ------------------- *)
MaxListLen == 1

ListNames == {"a", "b", "f"}

ListPaths == PathStrings(ListNames, MaxListLen)

ListLines ==
  {Line("ls", <<>>), Line("ls", <<DotPath>>), Line("cd", <<>>),
   Line("cd", <<[abs |-> FALSE, segs |-> <<"..">>]>>),
   Line("cd", <<[abs |-> TRUE, segs |-> <<"..">>]>>)}
    \cup {Line(c, <<p>>) : c \in {"ls", "cd", "rmdir"}, p \in ListPaths}
    \cup {Line("cp", <<[abs |-> TRUE, segs |-> <<"f">>], [abs |-> FALSE, segs |-> <<n>>]>>) :
             n \in {"a", "b"}}

TreeThree ==
  Tree({<<<<"a">>, VFSDirectory("a")>>, <<<<"a", "b">>, VFSFile("b", d1)>>,
        <<<<"a", "f">>, VFSFile("f", d1)>>, <<<<"b">>, VFSFile("b", d1)>>,
        <<<<"f">>, VFSFile("f", d1)>>})

\* the sequences that hold every element of S once
Orderings(S) ==
  {s \in [1..Cardinality(S) -> S] : \A i, j \in 1..Cardinality(S) : s[i] = s[j] => i = j}

\* the dicts a description of the tree t can give: the elements of a
\* directory are inserted in the order the description lists them, whatever
\* that is
load_orders(t) ==
  {ord \in [{l \in DOMAIN t : t[l].kind = "dir"} -> SegSeqs(ListNames, 3)] :
     \A d \in DOMAIN ord : ord[d] \in Orderings({q[Len(q)] : q \in children(t, d)})}

InitList ==
  /\ vfs_root \in {TreeThree, TreeEmptyDir, NoTree}
  /\ order \in load_orders(vfs_root)
  /\ cwd = <<>>
  /\ input_var = NoLine
  /\ out = <<>>
  /\ branch = "init"
  /\ copied = NoCopy
  /\ res = NoRes
  /\ NoSession

NextList ==
  \/ \E l \in ListLines : TypeLine(l)
  \/ on_enter_ls
  \/ on_enter_cd
  \/ on_enter_rmdir
  \/ on_enter_cp

SpecList == InitList /\ [][NextList]_vars

(* ------------------------------ C24 ----------------------------------- *)
\* the path ls lists: its argument, or '.' without one
ListTarget == IF input_var.args = <<>> THEN DotPath ELSE Arg(1)

\* the names of the children of the Directory at d, in lexicographic order,
\* a '/' behind the name of every Directory
Listing(t, d) ==
  LET names == SelectSeq(NameOrder, LAMBDA n : Append(d, n) \in DOMAIN t)
  IN [i \in 1..Len(names) |->
        IF IsDirAt(t, Append(d, names[i])) THEN names[i] \o "/" ELSE names[i]]

\* C24: ls output order is by name, never by insertion order.  For a
\* Directory target ls writes the child names in lexicographic order, each
\* Directory child suffixed by '/', whatever order the children were inserted
\* in by the loader or by later cp commands; for a File target it writes the
\* file's own name; a path that does not resolve is a reported error.  In
\* every case the tree and cwd stay as they were.
C24_LsSortsByName ==
  [][Enters("ls") =>
       /\ vfs_root' = vfs_root
       /\ cwd' = cwd
       /\ IF ~Loaded \/ ~Target(ListTarget).found
            THEN Last(out') = "ls_not_found" \/ out' = <<"echo", "vfs_not_loaded">>
          ELSE IF IsFileAt(vfs_root, Target(ListTarget).loc)
            THEN out' = <<"echo", vfs_root[Target(ListTarget).loc].name>>
          ELSE IF children(vfs_root, Target(ListTarget).loc) = {}
            THEN out' = <<"echo", "ls_empty_dir">>
          ELSE out' = <<"echo", join("  ", Listing(vfs_root, Target(ListTarget).loc))>>]_vars

\* the root's dict holds f, then a, then b, which a cp put there, and ls has
\* listed the root by name
C24_Witness ==
  /\ branch = "ls:dir"
  /\ Loaded
  /\ order[<<>>] = <<"f", "a", "b">>
  /\ IsDirAt(vfs_root, <<"a">>)
  /\ IsFileAt(vfs_root, <<"f">>)
  /\ out = <<"echo", "a/  b  f">>

(* ------------------------------ C25 ----------------------------------- *)
\* the Directory the current location denotes, if it denotes one
Here == NodeReached(vfs_root, StackAfter(cwd))

\* C25: ls with no argument, and ls '.', list the directory denoted by the
\* current location.  Wherever cd has taken the session in a loaded tree,
\* they write what ls writes when it is given the absolute path of cwd, and
\* that is the listing of the children of the Directory cwd denotes, not of
\* the root's.
C25_LsListsCwd ==
  [][(/\ Enters("ls")
      /\ ListTarget = DotPath
      /\ Loaded
      /\ Here.found
      /\ IsDirAt(vfs_root, Here.loc))
     => /\ out' = <<"echo">> \o cmd_ls(vfs_root, cwd, <<[abs |-> TRUE, segs |-> cwd]>>).out
        /\ out' = <<"echo",
                    IF children(vfs_root, Here.loc) = {} THEN "ls_empty_dir"
                    ELSE join("  ", Listing(vfs_root, Here.loc))>>]_vars

\* after cd a, ls without a path (or with '.') has listed the children of
\* /a, which are not the root's
C25_Witness ==
  /\ branch = "ls:cwd"
  /\ cwd = <<"a">>
  /\ out = <<"echo", "b  f">>
  /\ Listing(vfs_root, <<>>) = <<"a/", "b", "f">>

(* ------------------------------ C26 ----------------------------------- *)
MaxProbeLen == 2

\* the paths resolved before and after a step
ProbePaths == PathStrings(PathSegs, MaxProbeLen)

\* the step is a cp or an rmdir that succeeded
Mutates ==
  \/ Enters("cp") /\ Last(out') = "cp_copied"
  \/ Enters("rmdir") /\ Last(out') = "rmdir_removed"

\* the entry the command writes or removes, as a location
AffectedEntry ==
  IF input_var.cmd = "cp" THEN CpEntry(Arg(1), Arg(2)) ELSE Target(Arg(1)).loc

\* C26: resolve is re-derived from the root and unaffected by unrelated
\* mutations.  For every path p that resolves to a node N from cwd, after a
\* successful cp or rmdir whose affected entry is not on p's normalized
\* segment sequence, resolving p from the same cwd gives N again, the node it
\* was; and a step that mutates nothing and leaves cwd alone (an ls, a cat, a
\* failed command) changes the result of no resolution, found or not.
C26_ResolveUnaffected ==
  [][/\ Mutates =>
          \A p \in ProbePaths :
            (Target(p).found /\ ~IsPrefix(AffectedEntry, Target(p).loc)) =>
              /\ resolve_path(vfs_root', cwd', p) = Target(p)
              /\ vfs_root'[Target(p).loc] = vfs_root[Target(p).loc]
     /\ (Loaded /\ ~Mutates /\ input_var # NoLine /\ input_var' = NoLine /\ cwd' = cwd) =>
          \A p \in ProbePaths : resolve_path(vfs_root', cwd', p) = Target(p)]_vars

\* below /a, cp has written a new entry there and the root's file f, which
\* '../f' leads to, is the node it was
C26_Witness ==
  /\ branch = "cp:new_name"
  /\ Last(out) = "cp_copied"
  /\ cwd = <<"a">>
  /\ IsFileAt(vfs_root, <<"a", "a">>)
  /\ resolve_path(vfs_root, cwd, [abs |-> FALSE, segs |-> <<"..", "f">>]).loc = <<"f">>
  /\ vfs_root[<<"f">>].data = d1

(* ------------------------------ contents of files --------------------- *)
MaxDataLen == 5

\* 'a', newline, U+0001, and the two bytes of U+00E9
DataBytes == {97, 10, 1, 195, 169}

CatData == SegSeqs(DataBytes, MaxDataLen)

\* the same bytes under two names in two directories
TreeCat(data) ==
  Tree({<<<<"f">>, VFSFile("f", data)>>, <<<<"a">>, VFSDirectory("a")>>,
        <<<<"a", "b">>, VFSFile("b", data)>>})

CatLines ==
  {Line("cat", <<[abs |-> FALSE, segs |-> <<"f">>]>>),
   Line("cat", <<[abs |-> TRUE, segs |-> <<"a", "b">>]>>),
   Line("cat", <<[abs |-> FALSE, segs |-> <<"b">>]>>),
   Line("cd", <<[abs |-> FALSE, segs |-> <<"a">>]>>)}

InitCat ==
  /\ vfs_root \in {TreeCat(data) : data \in CatData}
  /\ order = load_order(vfs_root)
  /\ cwd = <<>>
  /\ input_var = NoLine
  /\ out = <<>>
  /\ branch = "init"
  /\ copied = NoCopy
  /\ res = NoRes
  /\ NoSession

NextCat ==
  \/ \E l \in CatLines : TypeLine(l)
  \/ on_enter_cat
  \/ on_enter_cd

SpecCat == InitCat /\ [][NextCat]_vars

(* ------------------------------ C27 ----------------------------------- *)
\* the file cat is asked for, when there is one
CatTarget == vfs_resolve(vfs_root, cwd, Arg(1))

CatsFile ==
  /\ on_enter_cat
  /\ input_var.args # <<>>
  /\ CatTarget.found
  /\ vfs_root[CatTarget.loc].kind = "file"

CatBytes == vfs_root[CatTarget.loc].data

ValidUtf8(data) == utf8_decode(data).ok

OnlyWhitespace(text) == \A i \in DOMAIN text : isspace(text[i])

\* the characters that are printable or newline, carriage return or tab
Counted(text) ==
  Cardinality({i \in DOMAIN text : isprintable(text[i]) \/ text[i] \in {10, 13, 9}})

\* the fraction of counted characters is at least 0.6
AtLeastSixTenths(text) == 10 * Counted(text) >= 6 * Len(text)

LineByLine(text) ==
  LET lines == splitlines(text, <<>>) IN [i \in 1..Len(lines) |-> str(lines[i])]

BinaryRendering(data) == <<"(binary data, base64): " \o b64text(b64encode(data))>>

\* what the policy makes of the bytes, its rules taken in order
Classified(data) ==
  LET text == utf8_decode(data).text
  IN IF data = <<>> THEN <<"cat_empty_file">>
     ELSE IF ~ValidUtf8(data) THEN BinaryRendering(data)
     ELSE IF OnlyWhitespace(text) THEN BinaryRendering(data)
     ELSE IF AtLeastSixTenths(text) THEN LineByLine(text)
     ELSE BinaryRendering(data)

Elem(tag, name, encoding, text, kids) ==
  [tag |-> tag, name |-> name, encoding |-> encoding, text |-> text, kids |-> kids]

\* str.lower, on the tags and encodings descriptions are written with here
lower(s) ==
  CASE s \in {"dir", "Dir", "DIR"} -> "dir"
    [] s \in {"file", "File", "FILE"} -> "file"
    [] s \in {"vfs", "Vfs", "VFS"} -> "vfs"
    [] s \in {"base64", "Base64", "BASE64"} -> "base64"
    [] OTHER -> s

\* the digit a character stands for, 64 for '=' and 65 for any other character
b64digit(ch) ==
  IF ch \in 65..90 THEN ch - 65
  ELSE IF ch \in 97..122 THEN ch - 97 + 26
  ELSE IF ch \in 48..57 THEN ch - 48 + 52
  ELSE IF ch = 43 THEN 62
  ELSE IF ch = 47 THEN 63
  ELSE IF ch = 61 THEN b64pad
  ELSE 65

\* binascii.a2b_base64 over the characters left to read: quad_pos digits of
\* the group are read, leftchar holds the bits not yet written, pads counts
\* the '=' met since the last digit
RECURSIVE a2b_base64(_, _, _, _, _)
a2b_base64(chars, quad_pos, leftchar, pads, data) ==
  IF chars = <<>>
    THEN IF quad_pos = 0 THEN [ok |-> TRUE, data |-> data, error |-> ""]
         ELSE IF quad_pos = 1
           THEN [ok |-> FALSE, data |-> <<>>,
                 error |-> "Invalid base64-encoded string: number of data characters"]
         ELSE [ok |-> FALSE, data |-> <<>>, error |-> "Incorrect padding"]
  ELSE LET this_ch == b64digit(chars[1])
           rest == Tail(chars)
       IN IF this_ch = b64pad
            THEN IF quad_pos >= 2 /\ quad_pos + pads + 1 >= 4
                   THEN [ok |-> TRUE, data |-> data, error |-> ""]
                 ELSE a2b_base64(rest, quad_pos, leftchar,
                                 IF quad_pos >= 2 THEN pads + 1 ELSE pads, data)
          ELSE IF this_ch > b64pad THEN a2b_base64(rest, quad_pos, leftchar, pads, data)
          ELSE IF quad_pos = 0 THEN a2b_base64(rest, 1, this_ch, 0, data)
          ELSE IF quad_pos = 1
            THEN a2b_base64(rest, 2, this_ch % 16, 0,
                            Append(data, leftchar * 4 + (this_ch \div 16)))
          ELSE IF quad_pos = 2
            THEN a2b_base64(rest, 3, this_ch % 4, 0,
                            Append(data, leftchar * 16 + (this_ch \div 4)))
          ELSE a2b_base64(rest, 0, 0, 0, Append(data, leftchar * 64 + this_ch))

\* b64decode that hands back the characters it was given as bytes
b64decode_undecoded(text) == [ok |-> TRUE, data |-> text, error |-> ""]

\* base64.b64decode of a str
b64decode(text) ==
  IF \E i \in DOMAIN text : text[i] > 127
    THEN [ok |-> FALSE, data |-> <<>>,
          error |-> "string argument should contain only ASCII characters"]
  ELSE a2b_base64(text, 0, 0, 0, <<>>)

\* the bytes of one character in UTF-8
utf8_bytes(ch) ==
  IF ch < 128 THEN <<ch>>
  ELSE IF ch < 2048 THEN <<192 + (ch \div 64), 128 + (ch % 64)>>
  ELSE IF ch < 65536
    THEN <<224 + (ch \div 4096), 128 + ((ch \div 64) % 64), 128 + (ch % 64)>>
  ELSE <<240 + (ch \div 262144), 128 + ((ch \div 4096) % 64), 128 + ((ch \div 64) % 64),
         128 + (ch % 64)>>

RECURSIVE utf8_encode(_)
utf8_encode(text) ==
  IF text = <<>> THEN <<>> ELSE utf8_bytes(text[1]) \o utf8_encode(Tail(text))

\* str.encode(enc) for the encodings descriptions name here; any other name
\* is one no codec is registered for
encode(text, enc) ==
  IF enc \in {"utf-8", "UTF-8", "utf8"}
    THEN [ok |-> TRUE, data |-> utf8_encode(text), error |-> ""]
  ELSE IF enc \in {"ascii", "ASCII"}
    THEN IF \E i \in DOMAIN text : text[i] > 127
           THEN [ok |-> FALSE, data |-> <<>>,
                 error |-> "'ascii' codec can't encode character"]
         ELSE [ok |-> TRUE, data |-> text, error |-> ""]
  ELSE [ok |-> FALSE, data |-> <<>>, error |-> "unknown encoding: " \o enc]

\* the bytes of a file element, or the ValueError raised for them
file_data(child) ==
  LET enc == child.encoding
      raw_text == child.text
  IN IF enc # "" /\ lower(enc) = "base64"
       THEN LET dec == b64decode(raw_text)
            IN IF dec.ok THEN dec
               ELSE [ok |-> FALSE, data |-> <<>>,
                     error |-> "base64_error in " \o child.name \o ": " \o dec.error]
     ELSE IF enc # ""
       THEN LET got == encode(raw_text, enc)
            IN IF got.ok THEN got
               ELSE [ok |-> FALSE, data |-> <<>>,
                     error |-> "bad_encoding '" \o enc \o "' for " \o child.name
                                 \o ": " \o got.error]
     ELSE [ok |-> TRUE, data |-> utf8_encode(raw_text), error |-> ""]

\* the tree and the dicts' orders built so far, or the exception raised
Built(t, ord) == [ok |-> TRUE, tree |-> t, order |-> ord, error |-> ""]

Raised(e) == [ok |-> FALSE, tree |-> NoTree, order |-> NoTree, error |-> e]

\* dir_node.add_child(node) while loading
loaded_child(acc, loc, node) ==
  LET t == add_child(acc.tree, loc, node)
  IN Built(t, dict_order(acc.order, t))

\* process_dir that passes over an element without a name
RECURSIVE process_dir_skips(_, _, _)
process_dir_skips(kids, loc, acc) ==
  IF kids = <<>> \/ ~acc.ok THEN acc
  ELSE LET child == kids[1]
           tag == lower(child.tag)
           name == child.name
       IN IF tag = "dir" /\ name # ""
            THEN process_dir_skips(Tail(kids), loc,
                                   process_dir_skips(child.kids, Append(loc, name),
                                                     loaded_child(acc, loc,
                                                                  VFSDirectory(name))))
          ELSE IF tag = "file" /\ name # ""
            THEN LET data == file_data(child)
                 IN IF ~data.ok THEN Raised(data.error)
                    ELSE process_dir_skips(Tail(kids), loc,
                                           loaded_child(acc, loc, VFSFile(name, data.data)))
          ELSE process_dir_skips(Tail(kids), loc, acc)

\* process_dir(xml_elem, dir_node) over the children of xml_elem left to read
RECURSIVE process_dir(_, _, _)
process_dir(kids, loc, acc) ==
  IF kids = <<>> \/ ~acc.ok THEN acc
  ELSE LET child == kids[1]
           tag == lower(child.tag)
           name == child.name
       IN IF tag = "dir"
            THEN IF name = "" THEN Raised("dir_without_name")
                 ELSE process_dir(Tail(kids), loc,
                                  process_dir(child.kids, Append(loc, name),
                                              loaded_child(acc, loc, VFSDirectory(name))))
          ELSE IF tag = "file"
            THEN IF name = "" THEN Raised("file_without_name")
                 ELSE LET data == file_data(child)
                      IN IF ~data.ok THEN Raised(data.error)
                         ELSE process_dir(Tail(kids), loc,
                                          loaded_child(acc, loc, VFSFile(name, data.data)))
          ELSE process_dir(Tail(kids), loc, acc)

\* top_dirs that is always empty
top_dirs_none(root) == <<>>

\* the children of the container that are directory elements named '/'
top_dirs(root) ==
  SelectSeq(root.kids, LAMBDA c : lower(c.tag) = "dir" /\ c.name = "/")

\* a description: no path given, or a path to no file, to a file that cannot
\* be read, to text that is no XML, or to a document with a top-level element
Description(state, root) == [state |-> state, root |-> root]

load_vfs_from_xml(path) ==
  IF path.state = "missing" THEN Raised("vfs_file_not_found")
  ELSE IF path.state = "unreadable" THEN Raised("os_error")
  ELSE IF path.state = "malformed" THEN Raised("xml_parse_error")
  ELSE IF lower(path.root.tag) # "vfs" THEN Raised("root_not_vfs")
  ELSE LET vfs_root_ == Built(Tree({}), [d \in {<<>>} |-> <<>>])
       IN IF top_dirs(path.root) # <<>>
            THEN process_dir(top_dirs(path.root)[1].kids, <<>>, vfs_root_)
          ELSE process_dir(path.root.kids, <<>>, vfs_root_)

\* what the constructor makes of vfs_path: the tree, the dicts' orders and
\* the line it writes about the load
loaded(path) ==
  IF path = NoPath THEN [tree |-> NoTree, order |-> load_order(NoTree), out |-> <<>>]
  ELSE LET got == load_vfs_from_xml(path)
       IN IF got.ok THEN [tree |-> got.tree, order |-> got.order, out |-> <<"vfs_loaded">>]
          ELSE [tree |-> NoTree, order |-> load_order(NoTree),
                out |-> <<"vfs_load_error: " \o got.error>>]

(* ------------------------------ descriptions -------------------------- *)
MaxKids == 2

File(name, encoding, text) == Elem("file", name, encoding, text, <<>>)

Dir(name, kids) == Elem("dir", name, "", <<>>, kids)

Container(tag, kids) == Description("parsed", Elem(tag, "", "", <<>>, kids))

\* the example description: 'Sample text', 'QkFTRTY0', 'Root text'
ExamplePath ==
  Container("vfs",
    <<Dir("/",
        <<Dir("sub",
            <<File("text.txt", "utf-8",
                   <<83, 97, 109, 112, 108, 101, 32, 116, 101, 120, 116>>),
              File("bin.dat", "base64", <<81, 107, 70, 84, 82, 84, 89, 48>>)>>),
          File("root.txt", "", <<82, 111, 111, 116, 32, 116, 101, 120, 116>>)>>)>>)

\* elements to nest: files 'a' with text 'x' and with base64 '/w==', a file
\* 'b' with the text U+00E9 under an upper-case tag, files whose base64 has
\* no padding, whose encoding is no codec and whose name is missing,
\* directories 'a' (empty, and holding a file 'b'), a directory that holds an
\* element of another tag and then a directory without a name, and an
\* element of another tag that holds a file without a name
LoadElems ==
  {File("a", "", <<120>>),
   File("a", "base64", <<47, 119, 61, 61>>),
   Elem("FILE", "b", "utf-8", <<233>>, <<>>),
   File("b", "BASE64", <<81, 81>>),
   File("b", "bogus", <<120>>),
   File("", "", <<120>>),
   Dir("a", <<>>),
   Dir("a", <<File("b", "", <<120>>)>>),
   Elem("Dir", "b", "", <<>>, <<Elem("note", "a", "", <<>>, <<>>), Dir("", <<>>)>>),
   Elem("note", "a", "", <<120>>, <<File("", "", <<>>)>>)}

KidLists == SegSeqs(LoadElems, MaxKids)

\* what stands before and behind a directory element named '/': nothing, a
\* file, a directory without a name, a second directory element named '/'
Siblings ==
  {<<<<>>, <<>>>>,
   <<<<File("a", "", <<120>>)>>, <<>>>>,
   <<<<Dir("", <<>>)>>, <<>>>>,
   <<<<>>, <<Dir("/", <<File("b", "", <<120>>)>>)>>>>}

Descriptions ==
  {NoPath, ExamplePath,
   Description("missing", Elem("", "", "", <<>>, <<>>)),
   Description("unreadable", Elem("", "", "", <<>>, <<>>)),
   Description("malformed", Elem("", "", "", <<>>, <<>>))}
    \cup {Container(tag, kids) : tag \in {"vfs", "VFS"}, kids \in KidLists}
    \cup {Container("vfs", sib[1] \o <<Dir("/", kids)>> \o sib[2]) :
            sib \in Siblings, kids \in KidLists}
    \cup {Container("root", kids) : kids \in SegSeqs(LoadElems, 1)}

LoadLines ==
  {Line("ls", <<>>), Line("vfsinfo", <<>>), Line("cat", <<>>),
   Line("ls", <<[abs |-> FALSE, segs |-> <<"a">>]>>),
   Line("cd", <<[abs |-> FALSE, segs |-> <<"a">>]>>),
   Line("cat", <<[abs |-> FALSE, segs |-> <<"a">>]>>),
   Line("cat", <<[abs |-> TRUE, segs |-> <<"sub", "bin.dat">>]>>),
   Line("rmdir", <<[abs |-> FALSE, segs |-> <<"a">>]>>),
   Line("cp", <<[abs |-> FALSE, segs |-> <<"a">>], [abs |-> FALSE, segs |-> <<"b">>]>>)}

InitLoad ==
  /\ vfs_path \in Descriptions
  /\ vfs_root = loaded(vfs_path).tree
  /\ order = loaded(vfs_path).order
  /\ out = loaded(vfs_path).out
  /\ cwd = <<>>
  /\ input_var = NoLine
  /\ branch = "init"
  /\ copied = NoCopy
  /\ res = NoRes
  /\ alive = TRUE
  /\ startup_script = NoScript
  /\ timers = <<>>
  /\ log = <<>>

NextLoad ==
  \/ \E l \in LoadLines : TypeLine(l)
  \/ on_enter_ls
  \/ on_enter_cd
  \/ on_enter_cat
  \/ on_enter_vfsinfo
  \/ on_enter_rmdir
  \/ on_enter_cp

SpecLoad == InitLoad /\ [][NextLoad]_vars

(* ------------------------------ C28 ----------------------------------- *)
BinDat == [abs |-> TRUE, segs |-> <<"sub", "bin.dat">>]

\* 'BASE64', the bytes that 'QkFTRTY0' stands for
BinDatBytes == <<66, 65, 83, 69, 54, 52>>

CatsBinDat ==
  /\ vfs_path = ExamplePath
  /\ on_enter_cat
  /\ input_var.args = <<BinDat>>

\* cat answers with the binary rendering of a file
CatsBinary ==
  /\ CatsFile
  /\ branch' \in {"cat:not_utf8", "cat:blank_text", "cat:unprintable"}

\* the line is the marker and the base64 characters of data, and decoding
\* those characters gives data
RoundTrips(line, data) ==
  LET digits == b64encode(data)
  IN /\ line = "(binary data, base64): " \o b64text(digits)
     /\ b64decode(b64points(digits)) = [ok |-> TRUE, data |-> data, error |-> ""]

\* C28 as amended: in a session started with the example description
\* /sub/bin.dat holds the bytes 'BASE64', which are printable text, and cat
\* of /sub/bin.dat writes them as the one line BASE64; where cat does write
\* the binary rendering of a file (one whose bytes are no such text), the
\* characters of the rendering decode back to the bytes of the file
C28_BinDatShownAsText ==
  /\ [](vfs_path = ExamplePath => vfs_root[<<"sub", "bin.dat">>].data = BinDatBytes)
  /\ [][CatsBinDat => out' = <<"echo", "BASE64">>]_vars
  /\ [][CatsBinary => RoundTrips(out'[2], CatBytes)]_vars

\* cat /sub/bin.dat answered with the line BASE64
C28_Witness ==
  /\ vfs_path = ExamplePath
  /\ branch = "cat:text"
  /\ out = <<"echo", "BASE64">>

\* C28 as stated: cat of /sub/bin.dat writes the binary rendering of the
\* decoded bytes
C28_BinDatShownAsBinary ==
  [][CatsBinDat => out' = <<"echo">> \o BinaryRendering(BinDatBytes)]_vars

\* a binary rendering was written and decodes back to the byte 0xFF
C28_BinaryWitness ==
  /\ branch = "cat:not_utf8"
  /\ out = <<"echo", "(binary data, base64): /w==">>

(* ------------------------------ C29 ----------------------------------- *)
\* the elements the loader reads the tree from: those nested in the first
\* directory element named '/' of the container, or those of the container
Source(path) ==
  LET slash == SelectSeq(path.root.kids, LAMBDA c : lower(c.tag) = "dir" /\ c.name = "/")
  IN IF slash # <<>> THEN slash[1].kids ELSE path.root.kids

\* what is wrong with the elements, in document order: a dir or file element
\* without a name, a file whose base64 is malformed or whose encoding cannot
\* encode its text; elements of other tags and what they hold do not count
RECURSIVE Defects(_)
Defects(kids) ==
  IF kids = <<>> THEN <<>>
  ELSE LET c == kids[1]
           own == IF lower(c.tag) = "dir"
                    THEN IF c.name = "" THEN <<"dir_without_name">> ELSE Defects(c.kids)
                  ELSE IF lower(c.tag) = "file"
                    THEN IF c.name = "" THEN <<"file_without_name">>
                         ELSE IF ~file_data(c).ok THEN <<file_data(c).error>>
                         ELSE <<>>
                  ELSE <<>>
       IN own \o Defects(Tail(kids))

\* what makes the load of a description fail, first cause first
Failures(path) ==
  IF path = NoPath THEN <<>>
  ELSE IF path.state = "missing" THEN <<"vfs_file_not_found">>
  ELSE IF path.state = "unreadable" THEN <<"os_error">>
  ELSE IF path.state = "malformed" THEN <<"xml_parse_error">>
  ELSE IF lower(path.root.tag) # "vfs" THEN <<"root_not_vfs">>
  ELSE Defects(Source(path))

LoadFailed == Failures(vfs_path) # <<>>

\* the step dispatches a VFS verb in a session whose load failed
EntersAfterFailure == LoadFailed /\ \E c \in VfsVerbs : Enters(c)

\* C29 as amended: if loading fails for any of the causes (missing or
\* unreadable file, malformed markup, top-level element that is not the vfs
\* container, a dir or file element without a name wherever the loader meets
\* it, malformed base64, an encoding that cannot encode the text), the
\* session holds no tree at all from construction on, the construction
\* reports the first cause, the window stays alive, and every VFS verb
\* dispatched with the arguments it needs reports 'not loaded'; cat and
\* rmdir without a path and cp with fewer than two paths report the missing
\* argument instead
C29_NoPartialTree ==
  /\ [](LoadFailed =>
          /\ vfs_root = NoTree
          /\ alive
          /\ branch = "init" => out = <<"vfs_load_error: " \o Failures(vfs_path)[1]>>)
  /\ [][EntersAfterFailure =>
          /\ vfs_root' = NoTree
          /\ alive'
          /\ IF Len(input_var.args) >= ArgsNeeded(input_var.cmd)
               THEN Reports(out', "vfs_not_loaded")
               ELSE Last(out') \in UsageReports]_vars

\* a description whose second element holds a directory without a name,
\* behind an element of another tag and after a file was read: no tree, and
\* cp reported 'not loaded'
C29_Witness ==
  /\ vfs_path = Container("vfs", <<File("a", "", <<120>>),
                                   Elem("Dir", "b", "", <<>>,
                                        <<Elem("note", "a", "", <<>>, <<>>), Dir("", <<>>)>>)>>)
  /\ vfs_root = NoTree
  /\ alive
  /\ branch = "cp:not_loaded"
  /\ out = <<"echo", "vfs_not_loaded">>

\* C29 as stated: after a failed load every dispatch of a VFS verb reports
\* 'not loaded'
C29_AlwaysNotLoaded ==
  [][EntersAfterFailure => Reports(out', "vfs_not_loaded")]_vars

(* ------------------------------ C30 ----------------------------------- *)
\* the description was read and nothing in it made the load fail
LoadedFrom(path) == path # NoPath /\ path.state = "parsed" /\ Failures(path) = <<>>

HasSlashDir(path) ==
  \E i \in DOMAIN path.root.kids :
    lower(path.root.kids[i].tag) = "dir" /\ path.root.kids[i].name = "/"

\* the places of the dir and file elements among kids
Nodes(kids) == {i \in DOMAIN kids : lower(kids[i].tag) \in {"dir", "file"}}

NamesOf(kids) == {kids[i].name : i \in Nodes(kids)}

\* the last dir or file element of that name among kids
LastNamed(kids, n) ==
  kids[CHOOSE i \in Nodes(kids) :
         /\ kids[i].name = n
         /\ \A j \in Nodes(kids) : kids[j].name = n => j <= i]

ChildNames(t, loc) == {q[Len(q)] : q \in children(t, loc)}

\* the children of the directory at loc are the dir and file elements of
\* kids, the last one of each name: a file with the bytes of its text, a
\* directory with the names of the elements nested in it
MadeOf(t, loc, kids) ==
  /\ ChildNames(t, loc) = NamesOf(kids)
  /\ \A n \in NamesOf(kids) :
       LET e == LastNamed(kids, n)
           at == Append(loc, n)
       IN IF lower(e.tag) = "file"
            THEN t[at] = VFSFile(n, file_data(e).data)
            ELSE t[at] = VFSDirectory(n) /\ ChildNames(t, at) = NamesOf(e.kids)

\* C30: after a load that succeeded, if the container has a directory
\* element named '/', the root's children are exactly the dir and file
\* elements nested in that element (the first such element), and otherwise
\* they are the dir and file elements of the container; either way the last
\* element of a name is the one kept, not merged with an earlier one, and
\* elements of other tags add nothing
C30_RootSelection ==
  (branch = "init" /\ LoadedFrom(vfs_path)) =>
     /\ vfs_root # NoTree
     /\ vfs_root[<<>>] = VFSDirectory("/")
     /\ IF HasSlashDir(vfs_path)
          THEN \E i \in DOMAIN vfs_path.root.kids :
                 /\ lower(vfs_path.root.kids[i].tag) = "dir"
                 /\ vfs_path.root.kids[i].name = "/"
                 /\ \A j \in 1..(i - 1) :
                      ~(lower(vfs_path.root.kids[j].tag) = "dir"
                          /\ vfs_path.root.kids[j].name = "/")
                 /\ MadeOf(vfs_root, <<>>, vfs_path.root.kids[i].kids)
          ELSE MadeOf(vfs_root, <<>>, vfs_path.root.kids)

\* a '/' element behind a file 'a': the root holds what the '/' element
\* holds, and of its two elements named 'a' the later one, a file
C30_Witness ==
  /\ branch = "init"
  /\ vfs_path = Container("vfs", <<File("a", "", <<120>>),
                                   Dir("/", <<Dir("a", <<File("b", "", <<120>>)>>),
                                              File("a", "base64", <<47, 119, 61, 61>>)>>)>>)
  /\ DOMAIN vfs_root = {<<>>, <<"a">>}
  /\ vfs_root[<<"a">>] = VFSFile("a", <<255>>)

\* elements listed straight in the container: a later directory 'a' took the
\* place of an earlier one and holds nothing of it
C30_TopLevelWitness ==
  /\ branch = "init"
  /\ vfs_path = Container("VFS", <<Dir("a", <<File("b", "", <<120>>)>>), Dir("a", <<>>)>>)
  /\ DOMAIN vfs_root = {<<>>, <<"a">>}
  /\ vfs_root[<<"a">>] = VFSDirectory("a")

(* ------------------------------ C31 ----------------------------------- *)
DirsOf(t) == {l \in DOMAIN t : t[l].kind = "dir"}

FilesOf(t) == {l \in DOMAIN t : t[l].kind = "file"}

\* the depth of the deepest Directory, the root lying at depth 0
DeepestDir(t) == CHOOSE m \in 0..Cardinality(DOMAIN t) :
                   /\ \E l \in DirsOf(t) : Len(l) = m
                   /\ \A l \in DirsOf(t) : Len(l) <= m

StatsLine(d, f, m) ==
  "dirs: " \o ToString(d) \o ", files: " \o ToString(f) \o ", max depth: " \o ToString(m)

\* C31: vfsinfo with a tree loaded, in whatever state cp and rmdir left the
\* tree, writes the number of Directory nodes with the root among them, the
\* number of File nodes and the depth of the deepest Directory, and leaves
\* the tree and cwd as they were
C31_VfsinfoCounts ==
  [][(Enters("vfsinfo") /\ Loaded) =>
       /\ out' = <<"echo", "vfsinfo_loaded",
                   StatsLine(Cardinality(DirsOf(vfs_root)), Cardinality(FilesOf(vfs_root)),
                             DeepestDir(vfs_root))>>
       /\ vfs_root' = vfs_root
       /\ cwd' = cwd]_vars

\* after cp put a file into the directory 'a', vfsinfo counted two
\* directories and two files, and the file below 'a' did not add to the depth
C31_Witness ==
  /\ branch = "vfsinfo:ok"
  /\ DOMAIN vfs_root = {<<>>, <<"a">>, <<"a", "f">>, <<"f">>}
  /\ vfs_root[<<"a", "f">>] = VFSFile("f", d1)
  /\ order[<<"a">>] = <<"f">>
  /\ out = <<"echo", "vfsinfo_loaded", StatsLine(2, 2, 1)>>

(* ------------------------------ C32 ----------------------------------- *)
\* the step is on_enter taking the typed line
TypedStep == input_var # NoLine /\ input_var' = NoLine

\* the step is the timer of a script line falling due
ScriptStep ==
  /\ timers # <<>>
  /\ Head(timers).call = "execute_line"
  /\ timers' = Tail(timers)

\* the tree and cwd after the step are what one call of the verb's handler
\* on the tree and cwd before the step returns with; a verb that is no
\* command leaves both
WholeCommand(cmd, args) ==
  IF cmd \in commands
    THEN \E h \in handler(cmd, vfs_root, cwd, args) : vfs_root' = h.root /\ cwd' = h.cwd
    ELSE vfs_root' = vfs_root /\ cwd' = cwd

\* C32: typed commands and script steps are steps of one event loop.  A step
\* that takes the typed line is no script step, leaves the timers and the
\* record of replayed lines alone and applies one whole command; a script step
\* leaves the typed line alone, applies one whole command and replays the
\* next retained line of the file, whatever was typed before it; and the tree
\* and cwd change in no other step
C32_AtomicCommandsInFileOrder ==
  /\ [][TypedStep =>
          /\ ~ScriptStep
          /\ timers' = timers
          /\ log' = log
          /\ WholeCommand(input_var.cmd, input_var.args)]_vars
  /\ [][ScriptStep =>
          /\ input_var' = input_var
          /\ WholeCommand(parts(Head(timers).line).cmd, parts(Head(timers).line).args)
          /\ Len(log') = Len(log) + 1
          /\ IsPrefix(log, log')
          /\ Last(log').idx = Len(log)
          /\ Last(log').cmd = retained(startup_script.lines)[Len(log) + 1].cmd]_vars
  /\ [][(vfs_root' # vfs_root \/ cwd' # cwd) => (TypedStep \/ ScriptStep)]_vars

\* the script went into 'a', the user typed cd and went back to the root,
\* and the script's rmdir a, relative to the root again, removed 'a'
C32_Witness ==
  /\ Len(log) = 2
  /\ log[1].cmd = "cd" /\ log[1].report = "cd_ok"
  /\ log[2].cmd = "rmdir" /\ log[2].report = "rmdir_removed"
  /\ cwd = <<>>
  /\ <<"a">> \notin DOMAIN vfs_root

(* ------------------------------ C33 ----------------------------------- *)
\* what walking cwd from the root reaches
CwdNode == resolve_path(vfs_root, <<>>, [abs |-> TRUE, segs |-> cwd])

\* C33: with a tree loaded, in every state that cd, cp and rmdir lead to,
\* walking cwd from the root reaches an existing Directory
C33_CwdDenotesDirectory ==
  Loaded => (CwdNode.found /\ IsDirAt(vfs_root, CwdNode.loc))

\* the session stands in 'a' and rmdir has just removed 'a'
C33_RemovedUnderfoot ==
  /\ Loaded
  /\ branch = "rmdir:removed"
  /\ cwd = <<"a">>
  /\ <<"a">> \notin DOMAIN vfs_root

(* ------------------------------ C34 ----------------------------------- *)
ReadingVerbs == {"ls", "cat", "vfsinfo", "whoami", "uptime"}

\* the step is a cp that reported success
CpSucceeds == Enters("cp") /\ Last(out') = "cp_copied"

\* the entries of the two trees that differ: there in one and not in the
\* other, or holding different nodes
Changed(t, u) ==
  {l \in DOMAIN t \cup DOMAIN u : l \notin DOMAIN t \/ l \notin DOMAIN u \/ t[l] # u[l]}

\* C34: ls, cat, vfsinfo, whoami and uptime leave the tree and cwd as they
\* were, whatever they report; cd leaves the tree; cp and rmdir leave cwd; and
\* after a successful cp there is one entry that holds a File of the entry's
\* name with the bytes of the source, and every entry but that one, the
\* source's among them, is as it was
C34_Frames ==
  /\ [][(\E c \in ReadingVerbs : Enters(c)) => (vfs_root' = vfs_root /\ cwd' = cwd)]_vars
  /\ [][Enters("cd") => vfs_root' = vfs_root]_vars
  /\ [][(Enters("cp") \/ Enters("rmdir")) => cwd' = cwd]_vars
  /\ [][CpSucceeds =>
          LET src == Target(Arg(1)).loc
          IN \E e \in DOMAIN vfs_root' :
               /\ Changed(vfs_root, vfs_root') \subseteq {e}
               /\ vfs_root'[e].kind = "file"
               /\ vfs_root'[e].name = e[Len(e)]
               /\ vfs_root'[e].data = vfs_root[src].data
               /\ vfs_root'[src] = vfs_root[src]]_vars

\* from inside 'a', cp wrote a new entry 'f' there and the session stayed in
\* 'a', the source at the root being what it was
C34_Witness ==
  /\ branch \in {"cp:into_dir", "cp:new", "cp:copied"}
  /\ Last(out) = "cp_copied"
  /\ cwd = <<"a">>
  /\ DOMAIN vfs_root = {<<>>, <<"a">>, <<"a", "f">>, <<"f">>}
  /\ vfs_root[<<"a", "f">>] = vfs_root[<<"f">>]
  /\ vfs_root[<<"f">>] = VFSFile("f", d1)

(* ------------------------------ C35 ----------------------------------- *)
\* the step is an rmdir that reported success
RmdirSucceeds == Enters("rmdir") /\ Last(out') = "rmdir_removed"

\* C35: when rmdir reports success, the one entry gone from the tree is that
\* of the node resolve_path returned for the path as typed, from the cwd the
\* command ran in, and every other entry is as it was
C35_RemovesResolved ==
  [][RmdirSucceeds =>
       LET node == Target(Arg(1))
       IN /\ node.found
          /\ node.loc \in DOMAIN vfs_root
          /\ DOMAIN vfs_root' = DOMAIN vfs_root \ {node.loc}
          /\ \A l \in DOMAIN vfs_root' : vfs_root'[l] = vfs_root[l]]_vars

\* from inside 'a', the empty directory 'f' of 'a' was removed: the file of
\* the same name at the root and 'a' itself are still there
C35_Witness ==
  /\ branch = "rmdir:removed"
  /\ out = <<"echo", "rmdir_removed">>
  /\ cwd = <<"a">>
  /\ DOMAIN vfs_root = {<<>>, <<"a">>, <<"f">>}
  /\ vfs_root[<<"a">>] = VFSDirectory("a")
  /\ vfs_root[<<"f">>] = VFSFile("f", d1)

(* ------------------------------ the resolver of variant_7 ------------- *)
\* the loop over comps: a name is looked up in the node reached so far; the
\* first '..' met drops what was reached, rebuilds the stack from the whole of
\* comps, walks it from the root and returns
RECURSIVE variant_7_loop(_, _, _, _)
variant_7_loop(t, loc, comps, i) ==
  IF i > Len(comps) THEN [found |-> TRUE, loc |-> loc]
  ELSE IF comps[i] = ".." THEN walk(t, <<>>, normalize(comps, <<>>))
  ELSE IF t[loc].kind # "dir" THEN NotFound
  ELSE LET nxt == get_child(t, loc, comps[i])
       IN IF ~nxt.found THEN NotFound ELSE variant_7_loop(t, nxt.loc, comps, i + 1)

variant_7_resolve_path(start_dir, cur, path) ==
  LET comps == IF path.abs THEN split_path(path) ELSE cur \o split_path(path)
  IN variant_7_loop(start_dir, <<>>, comps, 1)

call_variant_7_resolve_path(p) ==
  /\ ~res.called
  /\ res' = [path |-> p,
             found |-> variant_7_resolve_path(vfs_root, cwd, p).found,
             loc |-> variant_7_resolve_path(vfs_root, cwd, p).loc,
             called |-> TRUE]
  /\ UNCHANGED <<vfs_root, order, cwd, input_var, out, branch, copied, session>>

NextVariant == \E p \in ResolvePaths : call_variant_7_resolve_path(p)

\* one call of variant_7's resolve_path on a tree, a current location and a path
SpecVariant == InitResolve /\ [][NextVariant]_vars

(* ------------------------------ C36 ----------------------------------- *)
\* what resolve_path of vfs.py returns for the call that was made
ByVfs == resolve_path(vfs_root, cwd, res.path)

\* the position of the first '..' among the segments, 0 when there is none
FirstDotDot(comps) ==
  IF \E i \in 1..Len(comps) : comps[i] = ".."
    THEN CHOOSE i \in 1..Len(comps) :
           comps[i] = ".." /\ \A j \in 1..(i - 1) : comps[j] # ".."
    ELSE 0

\* the segments in front of the first '..'
BeforeDotDot(comps) == SubSeq(comps, 1, FirstDotDot(comps) - 1)

\* C36: resolve_path of variant_7.py returns what resolve_path of vfs.py
\* returns, the same node or not-found, for every tree, cwd and path, the
\* paths where '..' cancels a segment that is missing or names a File included
C36_ResolversAgree ==
  res.called => (res.found = ByVfs.found /\ res.loc = ByVfs.loc)

\* the call was made with a path where '..' cancels a segment that is not
\* there: vfs.py finds the directory in front of it, variant_7 finds nothing
C36_CancelledSegmentNotFound ==
  /\ res.called
  /\ ~res.found
  /\ ByVfs.found
  /\ FirstDotDot(AbsSegments(cwd, res.path)) > 1

\* the two agree on every path without '..', and on every path whose segments
\* in front of the first '..' can be walked from the root
C36_AgreeWherePrefixWalks ==
  (res.called /\ (FirstDotDot(AbsSegments(cwd, res.path)) = 0
                   \/ walk(vfs_root, <<>>, BeforeDotDot(AbsSegments(cwd, res.path))).found))
    => (res.found = ByVfs.found /\ res.loc = ByVfs.loc)

====
